---- MODULE Spec2Model ----
(***************************************************************************)
(* Model of the indicator engine of meigu2.0                               *)
(* (client/src/lib/indicators.ts): EMA smoothing, the MACD triple, the CD  *)
(* divergence cascade, the ladder bands, the NX crossover detector and the *)
(* buy/sell pressure oscillator.                                           *)
(*                                                                         *)
(* Numbers.  A JavaScript number is an IEEE-754 double: a binary           *)
(* floating-point value whose every arithmetic result is rounded to the    *)
(* nearest representable value, ties to even.  The model keeps exactly     *)
(* that discipline with a shorter significand: a number is an integer      *)
(* count of grid units (the smallest representable step, the subnormal     *)
(* spacing) with at most MantBits significant bits; Fl rounds an exact     *)
(* result, and every +, -, * and / of the source is followed by it.        *)
(* Comparisons, Math.abs, Math.max and negation are exact, as in IEEE.     *)
(* Arrays are 1-based sequences: bar i of the source is element i+1.       *)
(***************************************************************************)
EXTENDS Integers, Sequences, FiniteSets, TLC

\* Significand width of the modelled floating-point format (53 in a double).
MantBits == 12

\* The value 1.0 in grid units (2^16): a price of 100 is 100 * One.
One == 2 ^ 16

\* JavaScript's NaN (also the undefined that arithmetic turns into NaN) and
\* the two infinities, encoded outside the range of every finite number the
\* model computes.  Arithmetic propagates them as IEEE does; the infinities
\* compare as the largest and the smallest number.
NaN == -2147483647

PosInf == 2000000000

NegInf == -PosInf

Finite(x) == x # NaN /\ x # PosInf /\ x # NegInf

Abs(x) == IF x = NaN THEN NaN ELSE IF x < 0 THEN -x ELSE x

Max2(a, b) == IF a > b THEN a ELSE b

Min2(a, b) == IF a < b THEN a ELSE b

\* A function over 1..n evaluated once, as the array the source fills.
Array(f) == f \o <<>>

Pow2(n) == 2 ^ n

\* Number of significant bits of a >= 0.
RECURSIVE BitLen(_)
BitLen(a) == IF a = 0 THEN 0
             ELSE IF a >= 65536 THEN 16 + BitLen(a \div 65536)
             ELSE IF a >= 256 THEN 8 + BitLen(a \div 256)
             ELSE IF a >= 16 THEN 4 + BitLen(a \div 16)
             ELSE 1 + BitLen(a \div 2)

\* n / d (n >= 0, d > 0) rounded to the nearest integer, ties to even.
RoundEven(n, d) ==
  LET q == n \div d
      r == n % d
  IN  IF 2 * r < d THEN q
      ELSE IF 2 * r > d THEN q + 1
      ELSE IF q % 2 = 0 THEN q ELSE q + 1

\* Rounding of an exact result x to MantBits significant bits.
Fl(x) ==
  LET a == Abs(x)
      b == BitLen(a)
  IN  IF b <= MantBits THEN x
      ELSE LET t == Pow2(b - MantBits)
               r == RoundEven(a, t) * t
           IN  IF x >= 0 THEN r ELSE -r

\* The floating-point constant nearest num/den, as significand mk and binary
\* exponent kb: its value is mk / 2^kb.
Const(num, den) ==
  LET kb == CHOOSE e \in 0..30 :
              /\ (num * Pow2(e)) \div den >= Pow2(MantBits - 1)
              /\ \A f \in 0..(e - 1) : (num * Pow2(f)) \div den < Pow2(MantBits - 1)
  IN  [mk |-> RoundEven(num * Pow2(kb), den), kb |-> kb]

\* 1 - k taken to be k itself: the two weights no longer sum to 1.
OneMinus_same(c) == c

\* 1 - c for a constant 0 < c < 1, rounded.
OneMinus(c) ==
  LET n == Pow2(c.kb) - c.mk
      b == BitLen(n)
  IN  IF b <= MantBits THEN [mk |-> n, kb |-> c.kb]
      ELSE [mk |-> RoundEven(n, Pow2(b - MantBits)), kb |-> c.kb - (b - MantBits)]

\* Number of trailing bits that a representable a >= 0 carries beyond its
\* MantBits-bit significand.
Shift(a) == IF BitLen(a) > MantBits THEN BitLen(a) - MantBits ELSE 0

\* The exact value N / 2^d (N >= 0, d of either sign) rounded to a number.
RoundScaled(N, d) ==
  IF d <= 0 THEN Fl(N * Pow2(-d))
  ELSE LET bq == BitLen(N) - d
       IN  IF bq <= MantBits THEN RoundEven(N, Pow2(d))
           ELSE RoundEven(N, Pow2(d + bq - MantBits)) * Pow2(bq - MantBits)

\* x * c, rounded, for a number x and a positive constant c.
Mul(x, c) ==
  LET a == Abs(x)
      s == Shift(a)
      r == RoundScaled((a \div Pow2(s)) * c.mk, c.kb - s)
  IN  IF ~Finite(x) THEN x ELSE IF x >= 0 THEN r ELSE -r

\* x + y, rounded.
Add(x, y) ==
  IF x = NaN \/ y = NaN THEN NaN
  ELSE IF ~Finite(x) THEN (IF Finite(y) \/ y = x THEN x ELSE NaN)
  ELSE IF ~Finite(y) THEN y
  ELSE Fl(x + y)

\* x - y, rounded.
Sub(x, y) == Add(x, IF y = NaN THEN NaN ELSE -y)

\* 2 * x (a power-of-two scaling, exact).
Twice(x) == IF ~Finite(x) THEN x ELSE Fl(2 * x)

Sign(x) == IF x < 0 THEN -1 ELSE 1

\* x * y, rounded, for two numbers.
MulF(x, y) ==
  LET a == Abs(x)
      b == Abs(y)
      r == RoundScaled((a \div Pow2(Shift(a))) * (b \div Pow2(Shift(b))),
                       16 - Shift(a) - Shift(b))
  IN  IF x = NaN \/ y = NaN THEN NaN
      ELSE IF ~Finite(x) \/ ~Finite(y)
           THEN (IF x = 0 \/ y = 0 THEN NaN ELSE Sign(x) * Sign(y) * PosInf)
      ELSE Sign(x) * Sign(y) * r

\* A significand a > 0 scaled up to exactly bits significant bits.
Widen(a, bits) == a * Pow2(bits - BitLen(a))

\* x / y, rounded: the quotient of the significands to MantBits + 3 bits
\* with a sticky bit for the remainder, then one rounding.
DivF(x, y) ==
  LET a  == Abs(x)
      b  == Abs(y)
      ma == Widen(a \div Pow2(Shift(a)), 2 * MantBits + 3)
      mb == Widen(b \div Pow2(Shift(b)), MantBits)
      q  == ma \div mb
      N  == 2 * q + (IF ma % mb = 0 THEN 0 ELSE 1)
      \* a / b = (ma / mb) * 2^(BitLen(a) - BitLen(b) - MantBits - 3)
      d  == 1 + MantBits + 3 + BitLen(b) - BitLen(a) - 16
      r  == RoundScaled(N, d)
  IN  IF x = NaN \/ y = NaN THEN NaN
      ELSE IF ~Finite(x) THEN (IF ~Finite(y) THEN NaN ELSE Sign(x) * Sign(y) * PosInf)
      ELSE IF ~Finite(y) THEN 0
      ELSE IF y = 0 THEN (IF x = 0 THEN NaN ELSE Sign(x) * PosInf)
      ELSE IF x = 0 THEN 0
      ELSE Sign(x) * Sign(y) * r

\* The integer square root of M >= 0, by bisection on lo..hi.
RECURSIVE isqrt(_, _, _)
isqrt(M, lo, hi) ==
  IF lo >= hi THEN lo
  ELSE LET mid == (lo + hi + 1) \div 2
       IN  IF mid * mid <= M THEN isqrt(M, mid, hi) ELSE isqrt(M, lo, mid - 1)

\* Math.sqrt(x), rounded: the root of the significand widened to an even
\* exponent, with a sticky bit, then one rounding.
SqrtF(x) ==
  LET m  == x \div Pow2(Shift(x))
      w0 == 2 * MantBits + 4 - BitLen(m)
      \* x * 2^16 = M * 2^e with e even
      w  == IF (Shift(x) + 16 - w0) % 2 = 0 THEN w0 ELSE w0 - 1
      M  == m * Pow2(w)
      e  == Shift(x) + 16 - w
      r  == isqrt(M, 0, Pow2(MantBits + 2))
      N  == 2 * r + (IF r * r = M THEN 0 ELSE 1)
  IN  IF x = NaN \/ x < 0 THEN NaN
      ELSE IF x = PosInf THEN PosInf
      ELSE IF x = 0 THEN 0
      ELSE RoundScaled(N, 1 - (e \div 2))

\* Comparisons of the source, false whenever an operand is NaN.
Gt(x, y) == x # NaN /\ y # NaN /\ x > y

Ge(x, y) == x # NaN /\ y # NaN /\ x >= y

Le(x, y) == x # NaN /\ y # NaN /\ x <= y

Lt(x, y) == x # NaN /\ y # NaN /\ x < y

\* ============ EMA Calculation ============
\* The loop's result[lo..hi], given prev = result[lo - 1]; the bars are
\* computed in order, the first half of the range before the second.
RECURSIVE emaLoop(_, _, _, _, _, _)
emaLoop(data, k, k1, lo, hi, prev) ==
  IF lo > hi THEN <<>>
  ELSE IF lo = hi THEN <<Add(Mul(data[lo], k), Mul(prev, k1))>>
  ELSE LET mid   == (lo + hi) \div 2
           first == emaLoop(data, k, k1, lo, mid, prev)
       IN  first \o emaLoop(data, k, k1, mid + 1, hi, first[Len(first)])

\* ema seeded with the newest value instead of the oldest.
ema_seededWithLast(data, period) ==
  IF Len(data) = 0 THEN <<NaN>>
  ELSE LET k == Const(2, period + 1)
       IN  <<data[Len(data)]>> \o emaLoop(data, k, OneMinus(k), 2, Len(data), data[Len(data)])

ema(data, period) ==
  IF Len(data) = 0 THEN <<NaN>>
  ELSE LET k == Const(2, period + 1)
       IN  <<data[1]>> \o emaLoop(data, k, OneMinus(k), 2, Len(data), data[1])

\* ============ MACD ============
calculateMACD(candles) ==
  LET closes  == Array([i \in 1..Len(candles) |-> candles[i].close])
      emaFast == ema(closes, 12)
      emaSlow == ema(closes, 26)
      diff    == Array([i \in 1..Len(emaFast) |-> Sub(emaFast[i], emaSlow[i])])
      dea     == ema(diff, 9)
      macd    == Array([i \in 1..Len(diff) |-> Twice(Sub(diff[i], dea[i]))])
  IN  [diff |-> diff, dea |-> dea, macd |-> macd]


\* ============ Helper functions for CD formula ============
\* BARSLAST: bars since condition last held (0 if it holds at index); the
\* source's index + 1 (0-based) when it never held.
barslast(condition, index) ==
  LET held == {i \in 1..index : condition[i]}
  IN  IF held = {} THEN index
      ELSE index - (CHOOSE i \in held : \A j \in held : j <= i)

\* LLV: lowest value in the last period bars, the current bar included.
llv(data, index, period) ==
  LET window == {data[i] : i \in Max2(1, index - period + 1)..index} \cup {data[index]}
  IN  CHOOSE min \in window : \A x \in window : min <= x

\* HHV: highest value in the last period bars, the current bar included.
hhv(data, index, period) ==
  LET window == {data[i] : i \in Max2(1, index - period + 1)..index} \cup {data[index]}
  IN  CHOOSE max \in window : \A x \in window : max >= x

\* ref giving the first value, not 0, before the first bar.
ref_clamped(data, index, n) == IF index - n < 1 THEN data[1] ELSE data[index - n]

\* REF: the value n bars ago, 0 before the first bar.
ref(data, index, n) == IF index - n < 1 THEN 0 ELSE data[index - n]

refBool(data, index, n) == IF index - n < 1 THEN FALSE ELSE data[index - n]

\* COUNT: how often condition held in the last period bars.
count(condition, index, period) ==
  Cardinality({i \in Max2(1, index - period + 1)..index : condition[i]})

\* The constant 1.01 of the momentum-easing tests.
Easing == Const(101, 100)

\* ============ CD Signal Detection: the per-bar predicates ============
\* Each is the body of one loop of calculateCDSignals; i is the 1-based bar.
\* A loop that starts at bar 1 of the source leaves bar 0 (element 1) false.
macdDeathCross_level(macd, i) == i > 1 /\ macd[i] < 0

macdDeathCross(macd, i) == i > 1 /\ macd[i - 1] >= 0 /\ macd[i] < 0

macdGoldenCross(macd, i) == i > 1 /\ macd[i - 1] <= 0 /\ macd[i] > 0

AAA(CC1, CC2, DIFL1, DIFL2, macd, diff, i) ==
  i > 1 /\ CC1[i] < CC2[i] /\ DIFL1[i] > DIFL2[i] /\ macd[i - 1] < 0 /\ diff[i] < 0

BBB(CC1, CC3, DIFL1, DIFL2, DIFL3, macd, diff, i) ==
  /\ i > 1
  /\ CC1[i] < CC3[i] /\ DIFL1[i] < DIFL2[i] /\ DIFL1[i] > DIFL3[i]
  /\ macd[i - 1] < 0 /\ diff[i] < 0

CCC(aaa, bbb, diff, i) == (aaa[i] \/ bbb[i]) /\ diff[i] < 0

LLL(ccc, i) == i > 1 /\ ~ccc[i - 1] /\ ccc[i]

XXX(aaa, bbb, DIFL1, DIFL2, DIFL3, diff, dea, i) ==
  /\ i > 1
  /\ \/ aaa[i - 1] /\ DIFL1[i] <= DIFL2[i] /\ diff[i] < dea[i]
     \/ bbb[i - 1] /\ DIFL1[i] <= DIFL3[i] /\ diff[i] < dea[i]

JJJ(ccc, diff, i) ==
  i > 1 /\ ccc[i - 1] /\ Abs(diff[i - 1]) >= Mul(Abs(diff[i]), Easing)

BLBL(jjj, ccc, diff, i) ==
  i > 1 /\ jjj[i - 1] /\ ccc[i] /\ Mul(Abs(diff[i - 1]), Easing) <= Abs(diff[i])

\* DXDX without the edge: every bar at which the confirmation holds.
DXDX_level(jjj, i) == i > 1 /\ jjj[i]

DXDX(jjj, i) == i > 1 /\ ~jjj[i - 1] /\ jjj[i]

DJGXX(closes, CC1, CC2, jjj, lll, MM1, i) ==
  /\ i > 1
  /\ closes[i] < CC2[i] \/ closes[i] < CC1[i]
  /\ refBool(jjj, i, MM1[i] + 1) \/ refBool(jjj, i, MM1[i])
  /\ ~refBool(lll, i, 1)
  /\ count(jjj, i, 24) >= 1

\* refDJGXX[j] = DJGXX[j - 1] from bar 1 on; COUNT over the last 2 bars.
DJXX(djgxx, i) ==
  LET refDJGXX == [j \in 1..Len(djgxx) |-> j > 1 /\ djgxx[j - 1]]
  IN  i > 1 /\ ~(count(refDJGXX, i, 2) >= 1) /\ djgxx[i]

DXX(xxx, djxx, ccc, i) == (xxx[i] \/ djxx[i]) /\ ~ccc[i]

\* ZJDBL with the price test of the buy side left unmirrored.
ZJDBL_unmirrored(CH1, CH2, DIFH1, DIFH2, macd, diff, i) ==
  i > 1 /\ CH1[i] < CH2[i] /\ DIFH1[i] < DIFH2[i] /\ macd[i - 1] > 0 /\ diff[i] > 0

\* ZJDBL judging the top on price alone, without the test of the diff peaks.
ZJDBL_priceOnly(CH1, CH2, DIFH1, DIFH2, macd, diff, i) ==
  i > 1 /\ CH1[i] > CH2[i] /\ macd[i - 1] > 0 /\ diff[i] > 0

ZJDBL(CH1, CH2, DIFH1, DIFH2, macd, diff, i) ==
  i > 1 /\ CH1[i] > CH2[i] /\ DIFH1[i] < DIFH2[i] /\ macd[i - 1] > 0 /\ diff[i] > 0

GXDBL(CH1, CH3, DIFH1, DIFH2, DIFH3, macd, diff, i) ==
  /\ i > 1
  /\ CH1[i] > CH3[i] /\ DIFH1[i] > DIFH2[i] /\ DIFH1[i] < DIFH3[i]
  /\ macd[i - 1] > 0 /\ diff[i] > 0

DBBL(zjdbl, gxdbl, diff, i) == (zjdbl[i] \/ gxdbl[i]) /\ diff[i] > 0

DBL(dbbl, diff, dea, i) == i > 1 /\ ~dbbl[i - 1] /\ dbbl[i] /\ diff[i] > dea[i]

DBLXS(zjdbl, gxdbl, DIFH1, DIFH2, DIFH3, diff, dea, i) ==
  /\ i > 1
  /\ \/ zjdbl[i - 1] /\ DIFH1[i] >= DIFH2[i] /\ diff[i] > dea[i]
     \/ gxdbl[i - 1] /\ DIFH1[i] >= DIFH3[i] /\ diff[i] > dea[i]

DBJG(dbbl, diff, i) == i > 1 /\ dbbl[i - 1] /\ diff[i - 1] >= Mul(diff[i], Easing)

\* DBJGXC without the edge: every bar at which the sell confirmation holds.
DBJGXC_level(dbjg, i) == i > 1 /\ dbjg[i]

DBJGXC(dbjg, i) == i > 1 /\ ~dbjg[i - 1] /\ dbjg[i]

DBJGBL(dbjg, dbbl, diff, i) ==
  i > 1 /\ dbjg[i - 1] /\ dbbl[i] /\ Mul(diff[i - 1], Easing) <= diff[i]

ZZZZZ(closes, CH1, CH2, dbjg, dbl, N1, i) ==
  /\ i > 1
  /\ closes[i] > CH2[i] \/ closes[i] > CH1[i]
  /\ refBool(dbjg, i, N1[i] + 1) \/ refBool(dbjg, i, N1[i])
  /\ ~refBool(dbl, i, 1)
  /\ count(dbjg, i, 23) >= 1

YYYYY(zzzzz, i) ==
  LET refZZZZZ == [j \in 1..Len(zzzzz) |-> j > 1 /\ zzzzz[j - 1]]
  IN  i > 1 /\ ~(count(refZZZZZ, i, 2) >= 1) /\ zzzzz[i]

WWWWW(dblxs, yyyyy, dbbl, i) == (dblxs[i] \/ yyyyy[i]) /\ ~dbbl[i]

\* ============ CD Signal Detection: the arrays ============
\* Lines 128-383 of calculateCDSignals: every array the function fills, in
\* the order it fills them, from the closes and the MACD triple m.
cdSeries(closes, m) ==
  LET n      == Len(closes)
      diff   == m.diff
      dea    == m.dea
      macd   == m.macd
      death  == Array([i \in 1..n |-> macdDeathCross(macd, i)])
      golden == Array([i \in 1..n |-> macdGoldenCross(macd, i)])
      N1     == Array([i \in 1..n |-> barslast(death, i)])
      MM1    == Array([i \in 1..n |-> barslast(golden, i)])
      CC1    == Array([i \in 1..n |-> llv(closes, i, N1[i] + 1)])
      CC2    == Array([i \in 1..n |-> ref(CC1, i, MM1[i] + 1)])
      CC3    == Array([i \in 1..n |-> ref(CC2, i, MM1[i] + 1)])
      DIFL1  == Array([i \in 1..n |-> llv(diff, i, N1[i] + 1)])
      DIFL2  == Array([i \in 1..n |-> ref(DIFL1, i, MM1[i] + 1)])
      DIFL3  == Array([i \in 1..n |-> ref(DIFL2, i, MM1[i] + 1)])
      CH1    == Array([i \in 1..n |-> hhv(closes, i, MM1[i] + 1)])
      CH2    == Array([i \in 1..n |-> ref(CH1, i, N1[i] + 1)])
      CH3    == Array([i \in 1..n |-> ref(CH2, i, N1[i] + 1)])
      DIFH1  == Array([i \in 1..n |-> hhv(diff, i, MM1[i] + 1)])
      DIFH2  == Array([i \in 1..n |-> ref(DIFH1, i, N1[i] + 1)])
      DIFH3  == Array([i \in 1..n |-> ref(DIFH2, i, N1[i] + 1)])
      aaa    == Array([i \in 1..n |-> AAA(CC1, CC2, DIFL1, DIFL2, macd, diff, i)])
      bbb    == Array([i \in 1..n |-> BBB(CC1, CC3, DIFL1, DIFL2, DIFL3, macd, diff, i)])
      ccc    == Array([i \in 1..n |-> CCC(aaa, bbb, diff, i)])
      lll    == Array([i \in 1..n |-> LLL(ccc, i)])
      xxx    == Array([i \in 1..n |-> XXX(aaa, bbb, DIFL1, DIFL2, DIFL3, diff, dea, i)])
      jjj    == Array([i \in 1..n |-> JJJ(ccc, diff, i)])
      blbl   == Array([i \in 1..n |-> BLBL(jjj, ccc, diff, i)])
      dxdx   == Array([i \in 1..n |-> DXDX(jjj, i)])
      djgxx  == Array([i \in 1..n |-> DJGXX(closes, CC1, CC2, jjj, lll, MM1, i)])
      djxx   == Array([i \in 1..n |-> DJXX(djgxx, i)])
      dxx    == Array([i \in 1..n |-> DXX(xxx, djxx, ccc, i)])
      zjdbl  == Array([i \in 1..n |-> ZJDBL(CH1, CH2, DIFH1, DIFH2, macd, diff, i)])
      gxdbl  == Array([i \in 1..n |-> GXDBL(CH1, CH3, DIFH1, DIFH2, DIFH3, macd, diff, i)])
      dbbl   == Array([i \in 1..n |-> DBBL(zjdbl, gxdbl, diff, i)])
      dbl    == Array([i \in 1..n |-> DBL(dbbl, diff, dea, i)])
      dblxs  == Array([i \in 1..n |-> DBLXS(zjdbl, gxdbl, DIFH1, DIFH2, DIFH3, diff, dea, i)])
      dbjg   == Array([i \in 1..n |-> DBJG(dbbl, diff, i)])
      dbjgxc == Array([i \in 1..n |-> DBJGXC(dbjg, i)])
      dbjgbl == Array([i \in 1..n |-> DBJGBL(dbjg, dbbl, diff, i)])
      zzzzz  == Array([i \in 1..n |-> ZZZZZ(closes, CH1, CH2, dbjg, dbl, N1, i)])
      yyyyy  == Array([i \in 1..n |-> YYYYY(zzzzz, i)])
      wwwww  == Array([i \in 1..n |-> WWWWW(dblxs, yyyyy, dbbl, i)])
  IN  [diff |-> diff, dea |-> dea, macd |-> macd,
       macdDeathCross |-> death, macdGoldenCross |-> golden, N1 |-> N1, MM1 |-> MM1,
       CC1 |-> CC1, CC2 |-> CC2, CC3 |-> CC3,
       DIFL1 |-> DIFL1, DIFL2 |-> DIFL2, DIFL3 |-> DIFL3,
       CH1 |-> CH1, CH2 |-> CH2, CH3 |-> CH3,
       DIFH1 |-> DIFH1, DIFH2 |-> DIFH2, DIFH3 |-> DIFH3,
       AAA |-> aaa, BBB |-> bbb, CCC |-> ccc, LLL |-> lll, XXX |-> xxx, JJJ |-> jjj,
       BLBL |-> blbl, DXDX |-> dxdx, DJGXX |-> djgxx, DJXX |-> djxx, DXX |-> dxx,
       ZJDBL |-> zjdbl, GXDBL |-> gxdbl, DBBL |-> dbbl, DBL |-> dbl, DBLXS |-> dblxs,
       DBJG |-> dbjg, DBJGXC |-> dbjgxc, DBJGBL |-> dbjgbl,
       ZZZZZ |-> zzzzz, YYYYY |-> yyyyy, WWWWW |-> wwwww]

\* One emitted CD signal; the labels of the source are '抄底' (bottom-fish,
\* written chaodi) and '卖出' (sell, written maichu).
\* cdSignal with the snapshot taken one bar early.
cdSignal_previousBar(time, type, label, s, i) ==
  [time |-> time, type |-> type, strength |-> "strong", label |-> label,
   diffValue |-> s.diff[i - 1], deaValue |-> s.dea[i - 1], macdValue |-> s.macd[i - 1]]

cdSignal(time, type, label, s, i) ==
  [time |-> time, type |-> type, strength |-> "strong", label |-> label,
   diffValue |-> s.diff[i], deaValue |-> s.dea[i], macdValue |-> s.macd[i]]

\* What the collecting loop pushes at bars lo..hi: at each bar the buy signal
\* before the sell.
RECURSIVE collectSignals(_, _, _, _)
collectSignals(candles, s, lo, hi) ==
  IF lo > hi THEN <<>>
  ELSE IF lo = hi
  THEN (IF s.DXDX[lo] THEN <<cdSignal(candles[lo].time, "buy", "chaodi", s, lo)>> ELSE <<>>)
       \o (IF s.DBJGXC[lo] THEN <<cdSignal(candles[lo].time, "sell", "maichu", s, lo)>>
           ELSE <<>>)
  ELSE collectSignals(candles, s, lo, (lo + hi) \div 2)
       \o collectSignals(candles, s, (lo + hi) \div 2 + 1, hi)

\* Minimum bar count of the CD detector.
CDMinBars == 30

\* calculateCDSignals returning the newest signal first.
calculateCDSignals_newestFirst(candles) ==
  IF Len(candles) < CDMinBars THEN <<>>
  ELSE LET signals == collectSignals(candles,
                                     cdSeries(Array([i \in 1..Len(candles) |->
                                                       candles[i].close]),
                                              calculateMACD(candles)),
                                     1, Len(candles))
       IN  [k \in 1..Len(signals) |-> signals[Len(signals) + 1 - k]]

calculateCDSignals(candles) ==
  IF Len(candles) < CDMinBars THEN <<>>
  ELSE collectSignals(candles,
                      cdSeries(Array([i \in 1..Len(candles) |-> candles[i].close]),
                               calculateMACD(candles)),
                      1, Len(candles))

\* ============ Buy/Sell Pressure ============
PressureMinBars == 10

\* candles.reduce((sum, c) => sum + c.volume, 0)
\* The running sums of the reduce over bars lo..hi, given the sum before lo.
RECURSIVE sumLoop(_, _, _, _)
sumLoop(candles, lo, hi, sum) ==
  IF lo > hi THEN <<>>
  ELSE IF lo = hi THEN <<Add(sum, candles[lo].volume)>>
  ELSE LET mid   == (lo + hi) \div 2
           first == sumLoop(candles, lo, mid, sum)
       IN  first \o sumLoop(candles, mid + 1, hi, first[Len(first)])

sumVolume(candles) ==
  IF Len(candles) = 0 THEN 0 ELSE sumLoop(candles, 1, Len(candles), 0)[Len(candles)]

\* The integer n as a number.
Num(n) == n * One

meanVolume(candles) == DivF(sumVolume(candles), Num(Len(candles)))

\* rawPressure without the zero-range guard: the ratios divide by the range.
rawPressure_unguarded(candles, i, avgVolume, prev) ==
  LET c           == candles[i]
      range       == Sub(c.high, c.low)
      buyRatio    == DivF(Sub(c.close, c.low), range)
      sellRatio   == DivF(Sub(c.high, c.close), range)
      volRatio    == DivF(c.volume, IF avgVolume = NaN THEN NaN ELSE Max2(avgVolume, One))
      priceChange == IF i > 1
                     THEN Mul(DivF(Sub(c.close, candles[i - 1].close), candles[i - 1].close),
                              Const(100, 1))
                     ELSE 0
      netPressure == Mul(MulF(Sub(buyRatio, sellRatio), SqrtF(volRatio)), Const(100, 1))
  IN  Add(netPressure, MulF(priceChange, volRatio))

\* rawPressure pushing 0 for every zero-range bar instead of carrying forward.
rawPressure_zeroOnFlat(candles, i, avgVolume, prev) ==
  LET c           == candles[i]
      range       == Sub(c.high, c.low)
      buyRatio    == DivF(Sub(c.close, c.low), range)
      sellRatio   == DivF(Sub(c.high, c.close), range)
      volRatio    == DivF(c.volume, IF avgVolume = NaN THEN NaN ELSE Max2(avgVolume, One))
      priceChange == IF i > 1
                     THEN Mul(DivF(Sub(c.close, candles[i - 1].close), candles[i - 1].close),
                              Const(100, 1))
                     ELSE 0
      netPressure == Mul(MulF(Sub(buyRatio, sellRatio), SqrtF(volRatio)), Const(100, 1))
  IN  IF range = 0 THEN 0
      ELSE Add(netPressure, MulF(priceChange, volRatio))

\* The raw pressure of bar i; prev is pressures[i - 1].
rawPressure(candles, i, avgVolume, prev) ==
  LET c           == candles[i]
      range       == Sub(c.high, c.low)
      buyRatio    == DivF(Sub(c.close, c.low), range)
      sellRatio   == DivF(Sub(c.high, c.close), range)
      volRatio    == DivF(c.volume, IF avgVolume = NaN THEN NaN ELSE Max2(avgVolume, One))
      priceChange == IF i > 1
                     THEN Mul(DivF(Sub(c.close, candles[i - 1].close), candles[i - 1].close),
                              Const(100, 1))
                     ELSE 0
      netPressure == Mul(MulF(Sub(buyRatio, sellRatio), SqrtF(volRatio)), Const(100, 1))
  IN  IF range = 0 THEN (IF i > 1 THEN prev ELSE 0)
      ELSE Add(netPressure, MulF(priceChange, volRatio))

\* The pressures pushed at bars lo..hi, given prev = pressures[lo - 1].
RECURSIVE pressureLoop(_, _, _, _, _)
pressureLoop(candles, avgVolume, lo, hi, prev) ==
  IF lo > hi THEN <<>>
  ELSE IF lo = hi THEN <<rawPressure(candles, lo, avgVolume, prev)>>
  ELSE LET mid   == (lo + hi) \div 2
           first == pressureLoop(candles, avgVolume, lo, mid, prev)
       IN  first \o pressureLoop(candles, avgVolume, mid + 1, hi, first[Len(first)])

changeRate(smoothed, i) ==
  IF i > 1 /\ smoothed[i - 1] # 0
  THEN Mul(DivF(Sub(smoothed[i], smoothed[i - 1]), Abs(smoothed[i - 1])), Const(100, 1))
  ELSE 0

\* pressureSignal without the volume condition.
pressureSignal_anyVolume(candles, avgVolume, smoothed, rollingAvg, i) ==
  LET pressureStrong == Gt(Abs(smoothed[i]), Mul(rollingAvg[i], Const(3, 2)))
  IN  IF Ge(changeRate(smoothed, i), Num(10)) /\ pressureStrong /\ Gt(smoothed[i], 0)
      THEN "strong_up"
      ELSE IF Le(changeRate(smoothed, i), -Num(10)) /\ pressureStrong /\ Lt(smoothed[i], 0)
           THEN "strong_down"
           ELSE "none"

\* The signal of bar i: strong_up, strong_down or none (undefined).
pressureSignal(candles, avgVolume, smoothed, rollingAvg, i) ==
  LET volAboveAvg    == Gt(candles[i].volume, Mul(avgVolume, Const(6, 5)))
      pressureStrong == Gt(Abs(smoothed[i]), Mul(rollingAvg[i], Const(3, 2)))
  IN  IF Ge(changeRate(smoothed, i), Num(10)) /\ volAboveAvg /\ pressureStrong
         /\ Gt(smoothed[i], 0)
      THEN "strong_up"
      ELSE IF Le(changeRate(smoothed, i), -Num(10)) /\ volAboveAvg /\ pressureStrong
              /\ Lt(smoothed[i], 0)
           THEN "strong_down"
           ELSE "none"

\* The arrays calculateBuySellPressure holds when it returns.
pressureSeries(candles) ==
  LET avgVolume   == meanVolume(candles)
      pressures   == pressureLoop(candles, avgVolume, 1, Len(candles), 0)
      smoothed    == ema(pressures, 10)
      absSmoothed == Array([i \in 1..Len(smoothed) |-> Abs(smoothed[i])])
      rollingAvg  == ema(absSmoothed, 20)
  IN  [avgVolume |-> avgVolume, pressures |-> pressures, smoothed |-> smoothed,
       rollingAvg |-> rollingAvg]

\* calculateBuySellPressure leaving out the first bar, which has no change rate.
calculateBuySellPressure_skipFirst(candles, s) ==
  IF Len(candles) < PressureMinBars THEN <<>>
  ELSE Array([i \in 1..(Len(candles) - 1) |->
                [time       |-> candles[i + 1].time,
                 pressure   |-> s.smoothed[i + 1],
                 changeRate |-> changeRate(s.smoothed, i + 1),
                 signal     |-> pressureSignal(candles, s.avgVolume, s.smoothed,
                                               s.rollingAvg, i + 1)]])

\* calculateBuySellPressure, with s the arrays of pressureSeries it has built
\* by line 461: the guard of line 421 and the records of lines 463-492.
calculateBuySellPressure(candles, s) ==
  IF Len(candles) < PressureMinBars THEN <<>>
  ELSE Array([i \in 1..Len(candles) |->
                [time       |-> candles[i].time,
                 pressure   |-> s.smoothed[i],
                 changeRate |-> changeRate(s.smoothed, i),
                 signal     |-> pressureSignal(candles, s.avgVolume, s.smoothed,
                                               s.rollingAvg, i)]])

\* ============ Yellow-Blue Ladder ============
LadderMinBars == 60

\* The true range of bar i: the bar's own range at bar 0, else the largest of
\* the range and the two distances to the previous close.
trueRange(candles, i) ==
  IF i = 1 THEN Sub(candles[i].high, candles[i].low)
  ELSE Max2(Max2(Sub(candles[i].high, candles[i].low),
                 Abs(Sub(candles[i].high, candles[i - 1].close))),
            Abs(Sub(candles[i].low, candles[i - 1].close)))

\* ladderLevel with the blue band's bounds exchanged.
ladderLevel_swapped(time, ema20, ema60, atr14) ==
  [time     |-> time,
   blueUp   |-> Sub(ema20, Twice(atr14)),
   blueDn   |-> Add(ema20, Twice(atr14)),
   yellowUp |-> Add(ema60, Mul(atr14, Const(3, 1))),
   yellowDn |-> Sub(ema60, Mul(atr14, Const(3, 1))),
   blueMid  |-> ema20,
   yellowMid |-> ema60]

ladderLevel(time, ema20, ema60, atr14) ==
  [time     |-> time,
   blueUp   |-> Add(ema20, Twice(atr14)),
   blueDn   |-> Sub(ema20, Twice(atr14)),
   yellowUp |-> Add(ema60, Mul(atr14, Const(3, 1))),
   yellowDn |-> Sub(ema60, Mul(atr14, Const(3, 1))),
   blueMid  |-> ema20,
   yellowMid |-> ema60]

\* calculateLadder without its minimum bar count.
calculateLadder_unguarded(candles) ==
  LET closes == Array([i \in 1..Len(candles) |-> candles[i].close])
      ema20  == ema(closes, 20)
      ema60  == ema(closes, 60)
      atr    == Array([i \in 1..Len(candles) |-> trueRange(candles, i)])
      atr14  == ema(atr, 14)
  IN  Array([i \in 1..Len(candles) |->
               ladderLevel(candles[i].time, ema20[i], ema60[i], atr14[i])])

calculateLadder(candles) ==
  IF Len(candles) < LadderMinBars THEN <<>>
  ELSE LET closes == Array([i \in 1..Len(candles) |-> candles[i].close])
           ema20  == ema(closes, 20)
           ema60  == ema(closes, 60)
           atr    == Array([i \in 1..Len(candles) |-> trueRange(candles, i)])
           atr14  == ema(atr, 14)
       IN  Array([i \in 1..Len(candles) |->
                    ladderLevel(candles[i].time, ema20[i], ema60[i], atr14[i])])

\* ============ NX Signal ============
NXMinBars == 20

\* The labels of the source are '买入' (buy, written mairu) and '卖出'
\* (sell, written maichu).
\* nxLoop with the volume condition on the sell side as well.
RECURSIVE nxLoop_volumeOnSell(_, _, _, _, _, _)
nxLoop_volumeOnSell(candles, ema5, ema10, volEma, lo, hi) ==
  IF lo > hi THEN <<>>
  ELSE IF lo = hi
  THEN (IF /\ ema5[lo] > ema10[lo]
           /\ ema5[lo - 1] <= ema10[lo - 1]
           /\ candles[lo].volume > Mul(volEma[lo], Const(3, 2))
        THEN <<[time |-> candles[lo].time, type |-> "buy", label |-> "mairu"]>>
        ELSE <<>>)
       \o (IF /\ ema5[lo] < ema10[lo]
              /\ ema5[lo - 1] >= ema10[lo - 1]
              /\ candles[lo].volume > Mul(volEma[lo], Const(3, 2))
           THEN <<[time |-> candles[lo].time, type |-> "sell", label |-> "maichu"]>>
           ELSE <<>>)
  ELSE nxLoop_volumeOnSell(candles, ema5, ema10, volEma, lo, (lo + hi) \div 2)
       \o nxLoop_volumeOnSell(candles, ema5, ema10, volEma, (lo + hi) \div 2 + 1, hi)

\* What the loop pushes at bars lo..hi: the buy before the sell.
RECURSIVE nxLoop(_, _, _, _, _, _)
nxLoop(candles, ema5, ema10, volEma, lo, hi) ==
  IF lo > hi THEN <<>>
  ELSE IF lo = hi
  THEN (IF /\ ema5[lo] > ema10[lo]
           /\ ema5[lo - 1] <= ema10[lo - 1]
           /\ candles[lo].volume > Mul(volEma[lo], Const(3, 2))
        THEN <<[time |-> candles[lo].time, type |-> "buy", label |-> "mairu"]>>
        ELSE <<>>)
       \o (IF ema5[lo] < ema10[lo] /\ ema5[lo - 1] >= ema10[lo - 1]
           THEN <<[time |-> candles[lo].time, type |-> "sell", label |-> "maichu"]>>
           ELSE <<>>)
  ELSE nxLoop(candles, ema5, ema10, volEma, lo, (lo + hi) \div 2)
       \o nxLoop(candles, ema5, ema10, volEma, (lo + hi) \div 2 + 1, hi)

\* The three smoothed series calculateNXSignals holds when it returns.
nxSeries(candles) ==
  LET closes  == Array([i \in 1..Len(candles) |-> candles[i].close])
      volumes == Array([i \in 1..Len(candles) |-> candles[i].volume])
  IN  [ema5 |-> ema(closes, 5), ema10 |-> ema(closes, 10), volEma |-> ema(volumes, 10)]

\* calculateNXSignals, with s the three series of nxSeries it has built by
\* line 539: the guard of line 533 and the loop of lines 543-552.
calculateNXSignals(candles, s) ==
  IF Len(candles) < NXMinBars THEN <<>>
  ELSE nxLoop(candles, s.ema5, s.ema10, s.volEma, 2, Len(candles))

\* ============ Blue Ladder Strength Check (for screener) ============
\* checkBlueLadderStrength without the test of the blue band against the
\* yellow one.
checkBlueLadderStrength_risingOnly(candles, ladder) ==
  IF Len(candles) < LadderMinBars THEN FALSE
  ELSE IF Len(ladder) < 3 THEN FALSE
  ELSE /\ Gt(ladder[Len(ladder)].blueMid, ladder[Len(ladder) - 1].blueMid)
       /\ Gt(candles[Len(candles)].close, ladder[Len(ladder)].blueDn)

\* checkBlueLadderStrength, with ladder the levels calculateLadder(candles)
\* it has computed at line 561.
checkBlueLadderStrength(candles, ladder) ==
  IF Len(candles) < LadderMinBars THEN FALSE
  ELSE IF Len(ladder) < 3 THEN FALSE
  ELSE /\ Gt(ladder[Len(ladder)].blueMid, ladder[Len(ladder) - 1].blueMid)
       /\ Gt(ladder[Len(ladder)].blueUp, ladder[Len(ladder)].yellowUp)
       /\ Gt(candles[Len(candles)].close, ladder[Len(ladder)].blueDn)

\* ============ Candle Aggregator ============
\* Times.  The feed sets time = timestamp * 1000 from whole seconds; the
\* model keeps a time as that count of seconds since the epoch.
SecondsPerHour == 60 * 60

SecondsPerDay == 24 * SecondsPerHour

\* The civil date [year, month (1..12), day] of a day number since the epoch.
civilFromDays(days) ==
  LET z   == days + 719468
      era == z \div 146097
      doe == z - era * 146097
      yoe == (doe - doe \div 1460 + doe \div 36524 - doe \div 146096) \div 365
      doy == doe - (365 * yoe + yoe \div 4 - yoe \div 100)
      mp  == (5 * doy + 2) \div 153
      m   == IF mp < 10 THEN mp + 3 ELSE mp - 9
  IN  [year  |-> yoe + era * 400 + (IF m <= 2 THEN 1 ELSE 0),
       month |-> m,
       day   |-> doy - (153 * mp + 2) \div 5 + 1]

\* Date.UTC: the time of a civil date and a time of day.
DateUTC(year, month, day, hours, minutes) ==
  LET y   == IF month <= 2 THEN year - 1 ELSE year
      era == y \div 400
      yoe == y - era * 400
      doy == (153 * (IF month > 2 THEN month - 3 ELSE month + 9) + 2) \div 5 + day - 1
      doe == yoe * 365 + yoe \div 4 - yoe \div 100 + doy
  IN  (era * 146097 + doe - 719468) * SecondsPerDay + hours * SecondsPerHour + minutes * 60

getUTCFullYear(t) == civilFromDays(t \div SecondsPerDay).year

\* The month index, 0 for January.
getUTCMonth(t) == civilFromDays(t \div SecondsPerDay).month - 1

getUTCDate(t) == civilFromDays(t \div SecondsPerDay).day

getUTCHours(t) == (t % SecondsPerDay) \div SecondsPerHour

\* The local-time getters, for a zone tz minutes east of UTC.
getFullYear(t, tz) == getUTCFullYear(t + tz * 60)

getMonth(t, tz) == getUTCMonth(t + tz * 60)

\* etOffset that takes every month for a daylight-saving month.
etOffset_alwaysDST(t) == 4

etOffset(t) == IF getUTCMonth(t) >= 2 /\ getUTCMonth(t) <= 10 THEN 4 ELSE 5

etH(t) == ((getUTCHours(t) - etOffset(t)) + 24) % 24

\* The key `${dateStr}-AM` or `${dateStr}-PM`, as its four parts.
block(t) ==
  <<getUTCFullYear(t), getUTCMonth(t) + 1, getUTCDate(t), IF etH(t) < 14 THEN "AM" ELSE "PM">>

\* The key `${year}-${month}` of the local calendar month, as its two parts.
monthKey(t, tz) == <<getFullYear(t, tz), getMonth(t, tz) + 1>>

\* The k-th smallest element of a finite set of integers.
Nth(S, k) == CHOOSE i \in S : Cardinality({j \in S : j < i}) = k - 1

\* The Map the grouping loop fills: the keys in order of first insertion,
\* each with its candles in input order.  keys[i] is the key of candle i.
groups(candles, keys) ==
  LET firsts == {i \in 1..Len(candles) : \A j \in 1..(i - 1) : keys[j] # keys[i]}
  IN  Array([g \in 1..Cardinality(firsts) |->
               LET key     == keys[Nth(firsts, g)]
                   members == {i \in 1..Len(candles) : keys[i] = key}
               IN  [key   |-> key,
                    group |-> Array([k \in 1..Cardinality(members) |->
                                       candles[Nth(members, k)]])]])

maxHigh(group) == CHOOSE h \in {group[i].high : i \in 1..Len(group)} :
                    \A i \in 1..Len(group) : group[i].high <= h

minLow(group) == CHOOSE l \in {group[i].low : i \in 1..Len(group)} :
                   \A i \in 1..Len(group) : group[i].low >= l

\* aggregateGroup taking the high of the first candle for the group's high.
aggregateGroup_firstHigh(group) ==
  [time   |-> group[1].time,
   open   |-> group[1].open,
   high   |-> group[1].high,
   low    |-> minLow(group),
   close  |-> group[Len(group)].close,
   volume |-> sumVolume(group)]

\* aggregateGroup taking the low of the last candle for the group's low.
aggregateGroup_lastLow(group) ==
  [time   |-> group[1].time,
   open   |-> group[1].open,
   high   |-> maxHigh(group),
   low    |-> group[Len(group)].low,
   close  |-> group[Len(group)].close,
   volume |-> sumVolume(group)]

\* The bar pushed for one group.
aggregateGroup(group) ==
  [time   |-> group[1].time,
   open   |-> group[1].open,
   high   |-> maxHigh(group),
   low    |-> minLow(group),
   close  |-> group[Len(group)].close,
   volume |-> sumVolume(group)]

\* result.sort((a, b) => a.time - b.time): ascending in time, bars of equal
\* time in their previous order.
sortByTime(bars) ==
  LET before(i, j) == bars[i].time < bars[j].time \/ (bars[i].time = bars[j].time /\ i < j)
  IN  Array([k \in 1..Len(bars) |->
               bars[CHOOSE i \in 1..Len(bars) :
                      Cardinality({j \in 1..Len(bars) : before(j, i)}) = k - 1]])

blocks(candles) == Array([i \in 1..Len(candles) |-> block(candles[i].time)])

\* aggregate1hTo4h returning the bars in the order of the Map.
aggregate1hTo4h_unsorted(candles) ==
  IF Len(candles) = 0 THEN <<>>
  ELSE LET gs == groups(candles, blocks(candles))
       IN  Array([g \in 1..Len(gs) |-> aggregateGroup(gs[g].group)])

aggregate1hTo4h(candles) ==
  IF Len(candles) = 0 THEN <<>>
  ELSE LET gs == groups(candles, blocks(candles))
       IN  sortByTime(Array([g \in 1..Len(gs) |-> aggregateGroup(gs[g].group)]))

monthKeys(candles, tz) == Array([i \in 1..Len(candles) |-> monthKey(candles[i].time, tz)])

aggregateDailyToMonthly(candles, tz) ==
  LET gs == groups(candles, monthKeys(candles, tz))
  IN  sortByTime(Array([g \in 1..Len(gs) |-> aggregateGroup(gs[g].group)]))

\* ============ Intervals ============
\* map[key] on an object literal finds the literal's own properties and then
\* those of Object.prototype: these names are never undefined.
ObjectPrototype ==
  {"constructor", "__proto__", "hasOwnProperty", "isPrototypeOf", "propertyIsEnumerable",
   "toLocaleString", "toString", "valueOf", "__defineGetter__", "__defineSetter__",
   "__lookupGetter__", "__lookupSetter__"}

\* intervalMs with the durations in seconds.
intervalMs_seconds ==
  [i \in {"1m", "3m", "5m", "15m", "30m", "1h", "2h", "3h", "4h"} |->
     CASE i = "1m" -> 60 [] i = "3m" -> 180 [] i = "5m" -> 300
       [] i = "15m" -> 900 [] i = "30m" -> 1800 [] i = "1h" -> 3600
       [] i = "2h" -> 7200 [] i = "3h" -> 10800 [] i = "4h" -> 14400]

intervalMs ==
  [i \in {"1m", "3m", "5m", "15m", "30m", "1h", "2h", "3h", "4h"} |->
     CASE i = "1m" -> 60000 [] i = "3m" -> 180000 [] i = "5m" -> 300000
       [] i = "15m" -> 900000 [] i = "30m" -> 1800000 [] i = "1h" -> 3600000
       [] i = "2h" -> 7200000 [] i = "3h" -> 10800000 [] i = "4h" -> 14400000]

\* toFutuTime.  The value returned is a number, or, when intervalMs[interval]
\* is a member of Object.prototype (a function or an object, truthy), the
\* string that + makes of the timestamp and that member.
toFutuTime(timestamp, interval) ==
  IF interval \in {"1d", "1w", "1mo"} THEN [type |-> "number", value |-> timestamp]
  ELSE IF interval \in DOMAIN intervalMs
       THEN [type |-> "number", value |-> timestamp + intervalMs[interval]]
  ELSE IF interval \in ObjectPrototype
       THEN [type |-> "string", value |-> <<timestamp, interval>>]
  ELSE [type |-> "number", value |-> timestamp + 0]

\* The table of getYahooParams.
yahooMap ==
  [i \in {"1m", "5m", "15m", "30m", "1h", "4h", "1d", "1mo"} |->
     CASE i = "1m"  -> [yahooInterval |-> "1m", range |-> "7d"]
       [] i = "5m"  -> [yahooInterval |-> "5m", range |-> "60d"]
       [] i = "15m" -> [yahooInterval |-> "15m", range |-> "60d"]
       [] i = "30m" -> [yahooInterval |-> "30m", range |-> "60d"]
       [] i = "1h"  -> [yahooInterval |-> "60m", range |-> "730d"]
       [] i = "4h"  -> [yahooInterval |-> "60m", range |-> "730d"]
       [] i = "1d"  -> [yahooInterval |-> "1d", range |-> "5y"]
       [] i = "1mo" -> [yahooInterval |-> "1mo", range |-> "max"]]

\* getYahooParams.  A member of Object.prototype found under the key is
\* truthy and is returned as it is, [inherited |-> key]: it has neither a
\* yahooInterval nor a range.
getYahooParams(interval) ==
  IF interval \in DOMAIN yahooMap THEN yahooMap[interval]
  ELSE IF interval \in ObjectPrototype THEN [inherited |-> interval]
  ELSE [yahooInterval |-> "1d", range |-> "max"]

\* ============ In-memory cache ============
\* The cache is a function from the keys it holds to their entries.
Null == "null"

EmptyCache == [k \in {} |-> [data |-> Null, expires |-> 0]]

\* getCached serving an entry at the moment it expires.
getCached_inclusive(entries, key, now) ==
  IF key \in DOMAIN entries /\ now <= entries[key].expires
  THEN [data |-> entries[key].data, cache |-> entries]
  ELSE [data |-> Null, cache |-> [k \in DOMAIN entries \ {key} |-> entries[k]]]

\* getCached at clock reading now: the value returned and the cache left.
getCached(entries, key, now) ==
  IF key \in DOMAIN entries /\ now < entries[key].expires
  THEN [data |-> entries[key].data, cache |-> entries]
  ELSE [data |-> Null, cache |-> [k \in DOMAIN entries \ {key} |-> entries[k]]]

\* setCache at clock reading now: the cache left.
setCache(entries, key, data, ttlMs, now) ==
  [k \in DOMAIN entries \cup {key} |->
     IF k = key THEN [data |-> data, expires |-> now + ttlMs] ELSE entries[k]]

\* ============ Inputs ============
\* Candles as the data feed delivers them: one bar per minute, each opening at
\* the previous close, with a wick of the given size above and below the body.
BarMs == 60 * 1000

MakeCandles(closes, wick, volumes) ==
  [i \in 1..Len(closes) |->
     LET open == IF i = 1 THEN closes[1] ELSE closes[i - 1]
     IN  [time   |-> (i - 1) * BarMs,
          open   |-> open,
          high   |-> Max2(open, closes[i]) + wick,
          low    |-> Min2(open, closes[i]) - wick,
          close  |-> closes[i],
          volume |-> volumes[i]]]

\* A zigzag of n closes: legs of the given lengths and slopes (in half units
\* of price per bar), alternating in direction, the last leg running to bar n.
RECURSIVE ZigZag(_, _, _, _, _, _, _)
ZigZag(closes, dir, lens, mags, leg, k, n) ==
  IF Len(closes) >= n THEN SubSeq(closes, 1, n)
  ELSE IF leg < Len(mags) /\ k >= lens[leg]
       THEN ZigZag(closes, -dir, lens, mags, leg + 1, 0, n)
       ELSE ZigZag(Append(closes, closes[Len(closes)] + dir * mags[leg] * (One \div 2)),
                   dir, lens, mags, leg, k + 1, n)

\* Prices stay inside one binade, so every close is a representable number.
InBinade(closes) ==
  \A i \in 1..Len(closes) : closes[i] >= 64 * One /\ closes[i] < 128 * One

\* Longest input of the general family, and of the detector's family.
MaxLen == 61

MaxBars == 48

\* --- the general family: every length around the minimum bar counts ---
BarCounts ==
  {0, 1, PressureMinBars - 1, PressureMinBars, NXMinBars - 1, NXMinBars,
   CDMinBars - 1, CDMinBars, LadderMinBars - 1, LadderMinBars, MaxLen}

StartPrices == {96 * One, 96 * One - 3 * (One \div 8), 90 * One}

\* Flat, steady trends, and waves of seven-bar legs.
Shapes ==
  {[dir |-> 1, lens |-> <<>>, mags |-> <<0>>]}
  \cup {[dir |-> d, lens |-> <<>>, mags |-> <<1>>] : d \in {-1, 1}}
  \cup {[dir |-> d, lens |-> [j \in 1..8 |-> 7], mags |-> [j \in 1..9 |-> 2]] : d \in {-1, 1}}

Wicks == {0, One \div 2}

\* Volumes: level, or tripled on every fifth bar.
VolumePatterns == {"level", "spikes"}

Volumes(pattern, n) ==
  [i \in 1..n |-> IF pattern = "spikes" /\ i % 5 = 0 THEN 48 * One ELSE 16 * One]

\* --- the detector's family: zigzags long enough for divergences ---
Nondecreasing(f) == \A j \in 1..(Len(f) - 1) : f[j] <= f[j + 1]

CDShapes ==
  {[n |-> CDMinBars, dir |-> d, lens |-> l, mags |-> m] :
     d \in {-1, 1}, l \in {<<a, 9, c>> : a \in {2, 3}, c \in {3, 5}},
     m \in [1..4 -> {1, 2, 4}]}
  \cup {[n |-> MaxBars, dir |-> d, lens |-> [j \in 1..5 |-> 8], mags |-> m] :
          d \in {-1, 1}, m \in {f \in [1..6 -> {1, 2, 4}] : f[6] = 1}}
  \cup {[n |-> MaxBars, dir |-> d, lens |-> l, mags |-> m] :
          d \in {-1, 1},
          l \in {<<a, b, c, e>> : a \in {8, 12}, b \in {8, 12}, c \in {8, 12}, e \in {5, 8}},
          m \in {f \in [1..5 -> {1, 2, 4}] : Nondecreasing(f)}}

\* --- the stream: a chart of the detector's family that starts with the
\* minimum number of bars and receives the later bars one at a time ---
StreamShapes ==
  {sh \in CDShapes :
     sh.n = MaxBars /\ Len(sh.lens) = 4 /\ SubSeq(sh.lens, 1, 3) = <<8, 12, 8>>}

StreamCandles(sh, n) ==
  MakeCandles(ZigZag(<<96 * One>>, sh.dir, sh.lens, sh.mags, 1, 0, n), 0, Volumes("level", n))

\* --- the pressure family: a quiet stretch, a burst, a tail; the volume is
\* level, tenfold from the burst on, or tenfold during the burst only ---
\* One bar around the price p: still (no range), gap (no range, five above),
\* quiet (a symmetric wick around an unchanged close), surge (closing near a
\* high ten above), slump (its reflection) and tick (a close of 0).
PressureBar(kind, p, time, volume) ==
  IF kind = "gap"
  THEN [time |-> time, open |-> p + 5 * One, high |-> p + 5 * One, low |-> p + 5 * One,
        close |-> p + 5 * One, volume |-> volume]
  ELSE [time   |-> time,
        open   |-> p,
        high   |-> IF kind = "quiet" THEN p + One
                   ELSE IF kind = "surge" THEN p + 10 * One ELSE p,
        low    |-> IF kind = "quiet" THEN p - One
                   ELSE IF kind = "slump" THEN p - 10 * One
                   ELSE IF kind = "tick" THEN 0 ELSE p,
        close  |-> IF kind = "surge" THEN p + 19 * (One \div 2)
                   ELSE IF kind = "slump" THEN p - 19 * (One \div 2)
                   ELSE IF kind = "tick" THEN 0 ELSE p,
        volume |-> volume]

PressureShapes ==
  [n : {PressureMinBars, PressureMinBars + 4},
   first : {"still", "quiet"}, q : {2, 6},
   burst : {"still", "gap", "surge", "slump", "tick"}, b : {1, 3},
   tail : {"still", "quiet", "surge", "slump"},
   volumes : {"level", "burst", "pulse"}]

PressureCandles(sh) ==
  [i \in 1..sh.n |->
     PressureBar(IF i <= sh.q THEN sh.first ELSE IF i <= sh.q + sh.b THEN sh.burst ELSE sh.tail,
                 96 * One, (i - 1) * BarMs,
                 IF \/ sh.volumes = "burst" /\ i > sh.q
                    \/ sh.volumes = "pulse" /\ i > sh.q /\ i <= sh.q + sh.b
                 THEN 160 * One ELSE 16 * One)]

\* --- the aggregator family: bars an hour, six hours (an instrument traded
\* around the clock), a day or ten days apart, from a session opening or from
\* just before a change of date, month or year; in ascending, descending or
\* shuffled order ---
AggStarts ==
  {DateUTC(2025, 6, 15, 13, 30), DateUTC(2025, 1, 15, 14, 30), DateUTC(2025, 2, 28, 20, 30),
   DateUTC(2025, 11, 30, 19, 30), DateUTC(2025, 12, 31, 21, 0)}

AggSteps == {SecondsPerHour, 6 * SecondsPerHour, SecondsPerDay, 10 * SecondsPerDay}

MaxAggBars == 7

AggCounts == {0, 1, 3, MaxAggBars}

AggOrders == {"ascending", "descending", "shuffled"}

Timezones == {-300, 0, 480}

\* Prices that stay in one range, or that rise so that a bar trades wholly
\* above the open of the bar before it.
AggTrends == {"ranging", "rising"}

\* The k-th bar in time: prices and volume vary from bar to bar.
AggBar(k, start, step, trend) ==
  IF trend = "ranging"
  THEN [time   |-> start + (k - 1) * step,
        open   |-> (100 + k) * One,
        high   |-> (110 + 5 * ((3 * k) % 4)) * One,
        low    |-> (90 - 2 * ((5 * k) % 3)) * One,
        close  |-> (102 + ((2 * k) % 5)) * One,
        volume |-> (16 + 8 * (k % 3)) * One]
  ELSE [time   |-> start + (k - 1) * step,
        open   |-> (100 + 10 * k) * One,
        high   |-> (106 + 10 * k) * One,
        low    |-> (96 + 10 * k) * One,
        close  |-> (103 + 10 * k) * One,
        volume |-> (16 + 8 * (k % 3)) * One]

AggCandles(start, step, n, order, trend) ==
  [i \in 1..n |->
     AggBar(IF order = "ascending" THEN i
            ELSE IF order = "descending" THEN n + 1 - i
            ELSE ((2 * i) % n) + 1,
            start, step, trend)]

\* --- the interval family: a few bars a minute, half an hour or a day
\* apart, under every interval the chart and the screener offer, other
\* strings, and names that Object.prototype defines.  Timestamps count
\* milliseconds from the midnight before the first bar ---
Intervals ==
  {"1m", "3m", "5m", "15m", "30m", "1h", "2h", "3h", "4h", "1d", "1w", "1mo"}
  \cup {"1wk", "60m", "unknown", ""}
  \cup {"constructor", "toString", "__proto__"}

FutuStarts == {0, 570 * BarMs, 870 * BarMs}

FutuSteps == {BarMs, 30 * BarMs, 1440 * BarMs}

MaxFutuBars == 4

FutuCounts == {1, 2, MaxFutuBars}

FutuCandles(start, step, n) ==
  [i \in 1..n |->
     [time |-> start + (i - 1) * step, open |-> 100 * One, high |-> 101 * One,
      low |-> 99 * One, close |-> 100 * One, volume |-> 16 * One]]

\* --- the cache family: two keys, two payloads, the two lifetimes the
\* router uses, and a clock read every minute ---
CacheKeys == {"yahoo:TSLA:1d:5y", "quote:TSLA"}

CacheData == {"candles", "quote"}

CacheTtls == {120000, 600000}

ClockTick == 60000

MaxTicks == 11

\* ============ State ============
\* candles: the input of the call; pc: "ready" before the call, then the name
\* of the function that returned; result: its return value; locals: the
\* arrays calculateCDSignals, calculateBuySellPressure or calculateNXSignals
\* holds when it returns, the ladder checkBlueLadderStrength computed, the
\* groups an aggregator collected (empty otherwise); timezone: the offset of
\* the process's local time from UTC, in minutes east; interval: the interval
\* string of the request; cache: the in-memory cache; now: the reading of the
\* clock, in milliseconds; written: for each key, the last setCache made for
\* it (a history of the calls, kept for the properties).  For the cache
\* functions locals is the key of the call.
VARIABLES candles, pc, result, locals, timezone, interval, cache, now, written
vars == <<candles, pc, result, locals, timezone, interval, cache, now, written>>

Start(cs) ==
  /\ candles = cs
  /\ pc = "ready"
  /\ result = <<>>
  /\ locals = <<>>
  /\ timezone = 0
  /\ interval = "1d"
  /\ cache = EmptyCache
  /\ now = 0
  /\ written = EmptyCache

Init ==
  \E n \in BarCounts, p \in StartPrices, sh \in Shapes, w \in Wicks, v \in VolumePatterns :
    LET closes == ZigZag(<<p>>, sh.dir, sh.lens, sh.mags, 1, 0, n)
    IN  /\ InBinade(closes)
        /\ Start(MakeCandles(closes, w, Volumes(v, n)))

InitCD ==
  \E sh \in CDShapes :
    LET closes == ZigZag(<<96 * One>>, sh.dir, sh.lens, sh.mags, 1, 0, sh.n)
    IN  /\ InBinade(closes)
        /\ Start(MakeCandles(closes, 0, Volumes("level", sh.n)))

InitPressure == \E sh \in PressureShapes : Start(PressureCandles(sh))

InitAgg ==
  \E start \in AggStarts, step \in AggSteps, n \in AggCounts, order \in AggOrders,
     tz \in Timezones, trend \in AggTrends :
    /\ candles = AggCandles(start, step, n, order, trend)
    /\ pc = "ready"
    /\ result = <<>>
    /\ locals = <<>>
    /\ timezone = tz
    /\ interval = "1d"
    /\ cache = EmptyCache
    /\ now = 0
    /\ written = EmptyCache

CallMACD ==
  /\ pc = "ready"
  /\ result' = calculateMACD(candles)
  /\ pc' = "calculateMACD"
  /\ UNCHANGED <<candles, locals, timezone, interval, cache, now, written>>

CallCDSignals ==
  /\ pc = "ready"
  /\ result' = calculateCDSignals(candles)
  /\ locals' = IF Len(candles) < CDMinBars THEN <<>>
               ELSE cdSeries(Array([i \in 1..Len(candles) |-> candles[i].close]),
                             calculateMACD(candles))
  /\ pc' = "calculateCDSignals"
  /\ UNCHANGED <<candles, timezone, interval, cache, now, written>>

CallBuySellPressure ==
  /\ pc = "ready"
  /\ locals' = IF Len(candles) < PressureMinBars THEN <<>> ELSE pressureSeries(candles)
  /\ result' = calculateBuySellPressure(candles, locals')
  /\ pc' = "calculateBuySellPressure"
  /\ UNCHANGED <<candles, timezone, interval, cache, now, written>>

CallLadder ==
  /\ pc = "ready"
  /\ result' = calculateLadder(candles)
  /\ pc' = "calculateLadder"
  /\ UNCHANGED <<candles, locals, timezone, interval, cache, now, written>>

CallNXSignals ==
  /\ pc = "ready"
  /\ locals' = IF Len(candles) < NXMinBars THEN <<>> ELSE nxSeries(candles)
  /\ result' = calculateNXSignals(candles, locals')
  /\ pc' = "calculateNXSignals"
  /\ UNCHANGED <<candles, timezone, interval, cache, now, written>>

CallCheckBlueLadderStrength ==
  /\ pc = "ready"
  /\ locals' = calculateLadder(candles)
  /\ result' = checkBlueLadderStrength(candles, locals')
  /\ pc' = "checkBlueLadderStrength"
  /\ UNCHANGED <<candles, timezone, interval, cache, now, written>>

CallAggregate1hTo4h ==
  /\ pc = "ready"
  /\ result' = aggregate1hTo4h(candles)
  /\ locals' = groups(candles, blocks(candles))
  /\ pc' = "aggregate1hTo4h"
  /\ UNCHANGED <<candles, timezone, interval, cache, now, written>>

CallAggregateDailyToMonthly ==
  /\ pc = "ready"
  /\ result' = aggregateDailyToMonthly(candles, timezone)
  /\ locals' = groups(candles, monthKeys(candles, timezone))
  /\ pc' = "aggregateDailyToMonthly"
  /\ UNCHANGED <<candles, timezone, interval, cache, now, written>>

InitInterval ==
  \E start \in FutuStarts, step \in FutuSteps, n \in FutuCounts, iv \in Intervals :
    /\ candles = FutuCandles(start, step, n)
    /\ pc = "ready"
    /\ result = <<>>
    /\ locals = <<>>
    /\ timezone = 0
    /\ interval = iv
    /\ cache = EmptyCache
    /\ now = 0
    /\ written = EmptyCache

\* The chart converts the time of every bar it draws.
CallToFutuTime ==
  /\ pc = "ready"
  /\ result' = Array([i \in 1..Len(candles) |-> toFutuTime(candles[i].time, interval)])
  /\ pc' = "toFutuTime"
  /\ UNCHANGED <<candles, locals, timezone, interval, cache, now, written>>

CallGetYahooParams ==
  /\ pc = "ready"
  /\ result' = getYahooParams(interval)
  /\ pc' = "getYahooParams"
  /\ UNCHANGED <<candles, locals, timezone, interval, cache, now, written>>

InitCache == Start(<<>>)

CallSetCache ==
  \E key \in CacheKeys, data \in CacheData, ttlMs \in CacheTtls :
    /\ cache' = setCache(cache, key, data, ttlMs, now)
    /\ written' = [k \in DOMAIN written \cup {key} |->
                     IF k = key THEN [data |-> data, at |-> now, ttlMs |-> ttlMs]
                     ELSE written[k]]
    /\ locals' = key
    /\ result' = <<>>
    /\ pc' = "setCache"
    /\ UNCHANGED <<candles, timezone, interval, now>>

CallGetCached ==
  \E key \in CacheKeys :
    /\ result' = getCached(cache, key, now).data
    /\ cache' = getCached(cache, key, now).cache
    /\ locals' = key
    /\ pc' = "getCached"
    /\ UNCHANGED <<candles, timezone, interval, now, written>>

\* Time passes between two calls.
AdvanceClock ==
  /\ now + ClockTick <= MaxTicks * ClockTick
  /\ now' = now + ClockTick
  /\ pc' = "ready"
  /\ UNCHANGED <<candles, result, locals, timezone, interval, cache, written>>

InitStream ==
  \E sh \in StreamShapes :
    /\ InBinade(ZigZag(<<96 * One>>, sh.dir, sh.lens, sh.mags, 1, 0, MaxBars))
    /\ Start(StreamCandles(sh, CDMinBars))

\* A later fetch returns the bars seen so far and one more, and the detector
\* runs on them.
FetchNextCandle ==
  /\ pc = "calculateCDSignals"
  /\ Len(candles) < MaxBars
  /\ \E sh \in StreamShapes :
       /\ StreamCandles(sh, Len(candles)) = candles
       /\ candles' = StreamCandles(sh, Len(candles) + 1)
  /\ locals' = cdSeries(Array([i \in 1..Len(candles') |-> candles'[i].close]),
                        calculateMACD(candles'))
  /\ result' = collectSignals(candles', locals', 1, Len(candles'))
  /\ pc' = "calculateCDSignals"
  /\ UNCHANGED <<timezone, interval, cache, now, written>>

Next ==
  \/ CallMACD
  \/ CallCDSignals
  \/ CallBuySellPressure
  \/ CallLadder
  \/ CallNXSignals
  \/ CallCheckBlueLadderStrength

Spec == Init /\ [][Next]_vars

NextCD ==
  \/ CallMACD
  \/ CallCDSignals

SpecCD == InitCD /\ [][NextCD]_vars

NextStream ==
  \/ CallCDSignals
  \/ FetchNextCandle

SpecStream == InitStream /\ [][NextStream]_vars

NextPressure == CallBuySellPressure

SpecPressure == InitPressure /\ [][NextPressure]_vars

NextAgg ==
  \/ CallAggregate1hTo4h
  \/ CallAggregateDailyToMonthly

SpecAgg == InitAgg /\ [][NextAgg]_vars

NextInterval ==
  \/ CallToFutuTime
  \/ CallGetYahooParams

SpecInterval == InitInterval /\ [][NextInterval]_vars

NextCache ==
  \/ CallSetCache
  \/ CallGetCached
  \/ AdvanceClock

SpecCache == InitCache /\ [][NextCache]_vars

\* ============ Properties of the CD signal detector ============
\* The detector returned, having run its cascade on at least 30 bars.
DetectorRan == pc = "calculateCDSignals" /\ Len(candles) >= 30

SignalAt(type, i) ==
  \E k \in DOMAIN result : result[k].type = type /\ result[k].time = candles[i].time

\* active[j] = (PatternA[j] OR PatternB[j]) AND diff[j] < 0
Active(j) == (locals.AAA[j] \/ locals.BBB[j]) /\ locals.diff[j] < 0

\* confirm[i] = active[i-1] AND |diff[i-1]| >= 1.01 * |diff[i]|; false at the
\* first bar, which has no predecessor.
Confirm(i) ==
  /\ i > 1
  /\ Active(i - 1)
  /\ Abs(locals.diff[i - 1]) >= Mul(Abs(locals.diff[i]), Easing)

\* C1: a buy signal is emitted at a bar exactly when the momentum-easing
\* confirmation is true there and was false at the bar before; no other bar
\* carries a buy.
C1_BuyOnRisingEdge ==
  DetectorRan =>
    \A i \in 1..Len(candles) : SignalAt("buy", i) <=> (Confirm(i) /\ ~Confirm(i - 1))

\* C1 witness: a buy was emitted, and at some bar the confirmation held for a
\* second bar in a row (where no buy may follow).
C1_Witness ==
  /\ DetectorRan
  /\ \E i \in 1..Len(candles) : SignalAt("buy", i)
  /\ \E i \in 2..Len(candles) : Confirm(i) /\ Confirm(i - 1) /\ ~SignalAt("buy", i)

\* The cascade run on the reflected closes K - close (K twice the first close)
\* together with the negated diff, dea and macd.
Mirror ==
  cdSeries(Array([i \in 1..Len(candles) |-> 2 * candles[1].close - candles[i].close]),
           [diff |-> Array([i \in 1..Len(candles) |-> -locals.diff[i]]),
            dea  |-> Array([i \in 1..Len(candles) |-> -locals.dea[i]]),
            macd |-> Array([i \in 1..Len(candles) |-> -locals.macd[i]])])

Swapped ==
  LET mirror == Mirror
  IN  \A i \in 1..Len(candles) :
        mirror.DBJGXC[i] = locals.DXDX[i] /\ mirror.DXDX[i] = locals.DBJGXC[i]

\* diff never changes sign at the bar right after an active divergence bar.
NoSignFlip ==
  \A i \in 2..Len(candles) :
    /\ ~(locals.CCC[i - 1] /\ locals.diff[i] > 0)
    /\ ~(locals.DBBL[i - 1] /\ locals.diff[i] < 0)

\* C2 as stated: on the reflected sequence the signals fall on the same bars
\* with buy and sell swapped, for every sequence of at least 30 bars.
C2_ExactMirror == DetectorRan => Swapped

\* C2 amended: the swap holds whenever diff does not change sign right after
\* an active divergence bar; there the magnitude test of the buy side and
\* the signed test of the sell side agree.
C2_MirrorWithoutSignFlip == DetectorRan /\ NoSignFlip => Swapped

\* C2 witness: a buy of the original run answered by a sell of the mirrored
\* run at the same bar, on a sequence without sign flip.
C2_Witness ==
  /\ DetectorRan
  /\ NoSignFlip
  /\ LET mirror == Mirror
     IN  \E i \in 1..Len(candles) : SignalAt("buy", i) /\ mirror.DBJGXC[i]

\* C3: every signal carries the time of an input candle, type buy or sell,
\* strength strong, and the diff, dea and macd of the bar that emitted it.
C3_SignalShape ==
  DetectorRan =>
    \A k \in DOMAIN result :
      /\ result[k].type \in {"buy", "sell"}
      /\ result[k].strength = "strong"
      /\ \E i \in 1..Len(candles) :
           /\ result[k].time = candles[i].time
           /\ IF result[k].type = "buy" THEN locals.DXDX[i] ELSE locals.DBJGXC[i]
           /\ result[k].diffValue = locals.diff[i]
           /\ result[k].deaValue = locals.dea[i]
           /\ result[k].macdValue = locals.macd[i]

\* C3 witness: the detector returned at least one signal.
C3_Witness == DetectorRan /\ Len(result) >= 1

StrictlyIncreasingTimes ==
  \A i \in 1..(Len(candles) - 1) : candles[i].time < candles[i + 1].time

\* C4: with strictly increasing candle times the returned list is strictly
\* ascending in time, so no bar carries two signals.
C4_AscendingTimes ==
  pc = "calculateCDSignals" /\ StrictlyIncreasingTimes =>
    \A k \in 1..(Len(result) - 1) : result[k].time < result[k + 1].time

\* C4 witness: a result holding both a buy and a sell.
C4_Witness ==
  /\ pc = "calculateCDSignals"
  /\ StrictlyIncreasingTimes
  /\ \E k \in DOMAIN result : result[k].type = "buy"
  /\ \E k \in DOMAIN result : result[k].type = "sell"

\* C6 as stated: an input of exactly 30 candles yields an empty list.
C6_ThirtyBarsInsufficient ==
  pc = "calculateCDSignals" /\ Len(candles) = 30 => result = <<>>

\* ============ Properties of the other indicators ============
\* C5: below its minimum bar count each indicator returns the empty list:
\* the CD detector below 30 bars, the pressure below 10, the ladder below 60,
\* the NX detector below 20.
C5_EmptyBelowMinimum ==
  /\ pc = "calculateCDSignals" /\ Len(candles) < 30 => result = <<>>
  /\ pc = "calculateBuySellPressure" /\ Len(candles) < 10 => result = <<>>
  /\ pc = "calculateLadder" /\ Len(candles) < 60 => result = <<>>
  /\ pc = "calculateNXSignals" /\ Len(candles) < 20 => result = <<>>

\* C5 witness: the ladder called with one bar fewer than it needs.
C5_Witness == pc = "calculateLadder" /\ Len(candles) = 59 /\ result = <<>>

\* x === y: NaN equals nothing, itself included.
StrictEquals(x, y) == x # NaN /\ y # NaN /\ x = y

\* C7 as stated: at every index of the result, macd = 2 * (diff - dea).
C7_HistogramIdentity ==
  pc = "calculateMACD" =>
    \A i \in DOMAIN result.macd :
      StrictEquals(result.macd[i], Twice(Sub(result.diff[i], result.dea[i])))

\* C8 as stated: diff, dea and macd are each as long as the input, for every
\* input length, 0 included.
C8_SameLength ==
  pc = "calculateMACD" =>
    /\ Len(result.diff) = Len(candles)
    /\ Len(result.dea) = Len(candles)
    /\ Len(result.macd) = Len(candles)

ConstantClose == \A i \in DOMAIN candles : candles[i].close = candles[1].close

\* C9 as stated: on a constant close, diff, dea and macd are 0 at every bar.
C9_ExactZero ==
  pc = "calculateMACD" /\ ConstantClose =>
    \A i \in DOMAIN candles :
      result.diff[i] = 0 /\ result.dea[i] = 0 /\ result.macd[i] = 0

\* The unit in the last place of x > 0.
Ulp(x) == IF BitLen(x) > MantBits THEN Pow2(BitLen(x) - MantBits) ELSE 1

\* C9 amended: on a constant close c, diff, dea and macd are 0 at the first
\* bar and afterwards 0 up to accumulated rounding error: diff and dea within
\* 64 units in the last place of c, macd within 256.
C9_ZeroUpToRounding ==
  pc = "calculateMACD" /\ ConstantClose =>
    \A i \in DOMAIN candles :
      /\ Abs(result.diff[i]) <= 64 * Ulp(candles[1].close)
      /\ Abs(result.dea[i]) <= 64 * Ulp(candles[1].close)
      /\ Abs(result.macd[i]) <= 256 * Ulp(candles[1].close)
      /\ i = 1 => result.diff[i] = 0 /\ result.dea[i] = 0 /\ result.macd[i] = 0

\* C9 witness: a constant close of at least 60 bars on which rounding has
\* moved diff away from 0.
C9_Witness ==
  /\ pc = "calculateMACD"
  /\ ConstantClose
  /\ Len(candles) >= 60
  /\ \E i \in DOMAIN candles : result.diff[i] # 0

LadderRan ==
  /\ pc = "calculateLadder"
  /\ Len(candles) >= 60
  /\ \A i \in DOMAIN candles : candles[i].high >= candles[i].low

\* C10 as stated: in every level the upper bound of each band lies strictly
\* above the lower.
C10_StrictBands ==
  LadderRan =>
    \A i \in DOMAIN result :
      result[i].blueUp > result[i].blueDn /\ result[i].yellowUp > result[i].yellowDn

\* C10 amended: in every level the upper bound of each band is at least the
\* lower; the two coincide when the smoothed true range is 0.
C10_OrderedBands ==
  LadderRan =>
    \A i \in DOMAIN result :
      result[i].blueUp >= result[i].blueDn /\ result[i].yellowUp >= result[i].yellowDn

\* C10 witness: a level of flat candles whose bands have collapsed onto their
\* midpoints.
C10_Witness ==
  /\ LadderRan
  /\ \E i \in DOMAIN result :
       /\ result[i].blueUp = result[i].blueMid /\ result[i].blueDn = result[i].blueMid
       /\ result[i].yellowUp = result[i].yellowMid
       /\ result[i].yellowDn = result[i].yellowMid

\* ============ Properties of the pressure oscillator and the ladder ============
\* C11: with the minimum bar count met, the pressure oscillator and the
\* ladder return one record per candle, in input order, record i carrying
\* the time of candle i.
C11_OneRecordPerCandle ==
  (/\ pc \in {"calculateBuySellPressure", "calculateLadder"}
   /\ Len(candles) >= (IF pc = "calculateLadder" THEN 60 ELSE 10))
  => /\ Len(result) = Len(candles)
     /\ \A i \in 1..Len(candles) : result[i].time = candles[i].time

\* C11 witness: the pressure oscillator returned for exactly 10 candles.
C11_Witness ==
  pc = "calculateBuySellPressure" /\ Len(candles) = 10 /\ Len(result) = 10

PressureRan == pc = "calculateBuySellPressure" /\ Len(candles) >= 10

ZeroRange(i) == candles[i].high = candles[i].low

\* C12: when every candle has high = low, every bar has pressure 0,
\* changeRate 0 and no signal.
C12_FlatGivesZero ==
  PressureRan /\ (\A i \in 1..Len(candles) : ZeroRange(i)) =>
    \A i \in 1..Len(candles) :
      result[i].pressure = 0 /\ result[i].changeRate = 0 /\ result[i].signal = "none"

\* C12 witness: zero-range candles at two different prices, all with
\* pressure 0.
C12_Witness ==
  /\ PressureRan
  /\ \A i \in 1..Len(candles) : ZeroRange(i) /\ result[i].pressure = 0
  /\ \E i \in 1..Len(candles) : candles[i].close # candles[1].close

\* C13 as stated: every pressure and changeRate is finite.
C13_FiniteOutputs ==
  PressureRan =>
    \A i \in 1..Len(candles) : Finite(result[i].pressure) /\ Finite(result[i].changeRate)

\* C14 as stated: the raw pressure of a zero-range bar is the previous bar's
\* smoothed pressure, or 0 at the first bar.
C14_CarriesSmoothed ==
  PressureRan =>
    \A i \in 1..Len(candles) :
      ZeroRange(i) => locals.pressures[i] = (IF i = 1 THEN 0 ELSE locals.smoothed[i - 1])

\* C14 amended: the raw pressure of a zero-range bar is the previous bar's
\* raw pressure, or 0 at the first bar.
C14_CarriesRaw ==
  PressureRan =>
    \A i \in 1..Len(candles) :
      ZeroRange(i) => locals.pressures[i] = (IF i = 1 THEN 0 ELSE locals.pressures[i - 1])

\* C14 witness: a zero-range bar that carries a raw pressure other than 0 and
\* other than the smoothed value of the bar before.
C14_Witness ==
  /\ PressureRan
  /\ \E i \in 2..Len(candles) :
       /\ ZeroRange(i)
       /\ locals.pressures[i] = locals.pressures[i - 1]
       /\ locals.pressures[i] # 0
       /\ locals.pressures[i] # locals.smoothed[i - 1]

VolumeAbove(i) == Gt(candles[i].volume, Mul(locals.avgVolume, Const(6, 5)))

Strong(i) == Gt(Abs(locals.smoothed[i]), Mul(locals.rollingAvg[i], Const(3, 2)))

\* C15: strong_up exactly when changeRate >= 10, the volume exceeds 1.2
\* times the mean volume, |smoothed| exceeds 1.5 times the rolling average
\* and smoothed > 0; strong_down exactly when changeRate <= -10 with the same
\* volume and magnitude conditions and smoothed < 0; no signal otherwise, and
\* never on an input whose bars all have the same volume.
C15_SignalConditions ==
  PressureRan =>
    /\ \A i \in 1..Len(candles) :
         /\ result[i].signal \in {"strong_up", "strong_down", "none"}
         /\ result[i].signal = "strong_up" <=>
              /\ Ge(result[i].changeRate, 10 * One)
              /\ VolumeAbove(i) /\ Strong(i)
              /\ Gt(locals.smoothed[i], 0)
         /\ result[i].signal = "strong_down" <=>
              /\ Le(result[i].changeRate, -10 * One)
              /\ VolumeAbove(i) /\ Strong(i)
              /\ Lt(locals.smoothed[i], 0)
    /\ (\A i \in 1..Len(candles) : candles[i].volume = candles[1].volume)
         => \A i \in 1..Len(candles) : result[i].signal = "none"

\* C15 witness: a result holding a strong_up, and a bar whose change rate
\* and magnitude qualify but whose volume does not, left without signal.
C15_Witness ==
  /\ PressureRan
  /\ \E i \in 1..Len(candles) : result[i].signal = "strong_up"
  /\ \E i \in 1..Len(candles) :
       /\ Ge(result[i].changeRate, 10 * One) /\ Strong(i) /\ Gt(locals.smoothed[i], 0)
       /\ ~VolumeAbove(i)
       /\ result[i].signal = "none"

\* ============ Properties of the NX detector and the strength check ============
NXRan == pc = "calculateNXSignals" /\ Len(candles) >= 20

NXSignalAt(type, label, i) ==
  \E k \in DOMAIN result :
    result[k] = [time |-> candles[i].time, type |-> type, label |-> label]

CrossUp(i) ==
  i > 1 /\ locals.ema5[i] > locals.ema10[i] /\ locals.ema5[i - 1] <= locals.ema10[i - 1]

CrossDown(i) ==
  i > 1 /\ locals.ema5[i] < locals.ema10[i] /\ locals.ema5[i - 1] >= locals.ema10[i - 1]

VolumeSurge(i) == candles[i].volume > Mul(locals.volEma[i], Const(3, 2))

\* C16: a buy at a bar exactly when ema5 crosses from <= to > ema10 there and
\* the volume exceeds 1.5 times its EMA(10); a sell exactly when ema5 crosses
\* from >= to < ema10, whatever the volume; every signal is one of these, a
\* buy labelled '买入' (mairu), a sell labelled '卖出' (maichu).
C16_CrossoverSignals ==
  NXRan =>
    /\ \A i \in 1..Len(candles) :
         /\ (\E k \in DOMAIN result :
               result[k].type = "buy" /\ result[k].time = candles[i].time)
            <=> (CrossUp(i) /\ VolumeSurge(i))
         /\ (\E k \in DOMAIN result :
               result[k].type = "sell" /\ result[k].time = candles[i].time)
            <=> CrossDown(i)
    /\ \A k \in DOMAIN result :
         \E i \in 2..Len(candles) :
           \/ result[k] = [time |-> candles[i].time, type |-> "buy", label |-> "mairu"]
           \/ result[k] = [time |-> candles[i].time, type |-> "sell", label |-> "maichu"]

\* C16 witness: a buy and a sell were emitted, one sell at a bar without
\* volume surge, and one upward crossing without surge was left unsignalled.
C16_Witness ==
  /\ NXRan
  /\ \E i \in 2..Len(candles) : NXSignalAt("buy", "mairu", i)
  /\ \E i \in 2..Len(candles) : NXSignalAt("sell", "maichu", i) /\ ~VolumeSurge(i)
  /\ \E i \in 2..Len(candles) : CrossUp(i) /\ ~VolumeSurge(i)

\* C17: the strength check is false below 60 candles, and from 60 candles on
\* true exactly when the last blue midpoint is above the previous one, the
\* last blueUp above the last yellowUp and the last close above the last
\* blueDn.
C17_StrengthCheck ==
  pc = "checkBlueLadderStrength" =>
    IF Len(candles) < 60 THEN result = FALSE
    ELSE LET n == Len(candles)
         IN  result <=> /\ Len(locals) = n
                        /\ locals[n].blueMid > locals[n - 1].blueMid
                        /\ locals[n].blueUp > locals[n].yellowUp
                        /\ candles[n].close > locals[n].blueDn

\* C17 witness: the check returned true.
C17_Witness ==
  pc = "checkBlueLadderStrength" /\ Len(candles) >= 60 /\ result = TRUE

\* ============ Properties of the candle aggregator ============
AggregatorRan == pc \in {"aggregate1hTo4h", "aggregateDailyToMonthly"}

\* The bucket key of candle i under the aggregator that ran.
BucketKey(i) ==
  IF pc = "aggregate1hTo4h" THEN block(candles[i].time)
  ELSE monthKey(candles[i].time, timezone)

Bucket(i) == {j \in 1..Len(candles) : BucketKey(j) = BucketKey(i)}

RECURSIVE TotalVolume(_)
TotalVolume(S) ==
  IF S = {} THEN 0
  ELSE LET i == CHOOSE j \in S : TRUE
       IN  candles[i].volume + TotalVolume(S \ {i})

\* The bar the claim describes for the bucket of candle i.
BucketBar(i) ==
  LET first == CHOOSE j \in Bucket(i) : \A l \in Bucket(i) : j <= l
      last  == CHOOSE j \in Bucket(i) : \A l \in Bucket(i) : j >= l
  IN  [time   |-> candles[first].time,
       open   |-> candles[first].open,
       high   |-> CHOOSE h \in {candles[j].high : j \in Bucket(i)} :
                    \A j \in Bucket(i) : candles[j].high <= h,
       low    |-> CHOOSE l \in {candles[j].low : j \in Bucket(i)} :
                    \A j \in Bucket(i) : candles[j].low >= l,
       close  |-> candles[last].close,
       volume |-> TotalVolume(Bucket(i))]

\* C18: both aggregators return the empty list for empty input and otherwise
\* one bar per distinct bucket key, with the open and the time of the
\* bucket's first input bar, the highest high, the lowest low, the close of
\* the bucket's last input bar and the sum of the volumes.
C18_OneBarPerBucket ==
  AggregatorRan =>
    /\ Len(candles) = 0 => result = <<>>
    /\ Len(result) = Cardinality({BucketKey(i) : i \in 1..Len(candles)})
    /\ \A i \in 1..Len(candles) : \E k \in DOMAIN result : result[k] = BucketBar(i)

\* C18 witness: months aggregated from bars given out of order, one month
\* holding at least three of them.
C18_Witness ==
  /\ pc = "aggregateDailyToMonthly"
  /\ Len(result) >= 2
  /\ \E i \in 1..Len(candles) : Cardinality(Bucket(i)) >= 3
  /\ \E i \in 1..(Len(candles) - 1) : candles[i].time > candles[i + 1].time

\* C19: whatever the input order, the bars aggregate1hTo4h returns are
\* strictly ascending in time and no two of them belong to the same bucket.
C19_AscendingBuckets ==
  pc = "aggregate1hTo4h" =>
    /\ \A k \in 1..(Len(result) - 1) : result[k].time < result[k + 1].time
    /\ \A k, l \in DOMAIN result : k # l => block(result[k].time) # block(result[l].time)

\* C19 witness: at least three bars returned for an input given in
\* descending order.
C19_Witness ==
  /\ pc = "aggregate1hTo4h"
  /\ Len(result) >= 3
  /\ \A i \in 1..(Len(candles) - 1) : candles[i].time > candles[i + 1].time

UTCDateOf(t) == <<getUTCFullYear(t), getUTCMonth(t) + 1, getUTCDate(t)>>

\* ((utcHour - offset + 24) mod 24) with offset 4 when the UTC month index is
\* in 2..10 and 5 otherwise.
LocalHour(t) ==
  ((getUTCHours(t) - (IF getUTCMonth(t) \in 2..10 THEN 4 ELSE 5)) + 24) % 24

\* Consecutive hourly bars of one regular session (local hours 9 to 15).
SessionDay ==
  /\ Len(candles) >= 1
  /\ \A i \in 1..(Len(candles) - 1) : candles[i + 1].time = candles[i].time + SecondsPerHour
  /\ \A i \in 1..Len(candles) : LocalHour(candles[i].time) \in 9..15

\* C20: each bar lies in the group keyed by its UTC date and AM when its
\* local hour is below 14, PM otherwise; so a UTC date yields at most two
\* bars, and the consecutive hourly bars of one session that lie on both
\* sides of local hour 14 yield exactly two.
C20_SessionBlocks ==
  pc = "aggregate1hTo4h" =>
    /\ \A i \in 1..Len(candles) :
         \E g \in DOMAIN locals :
           /\ \E k \in DOMAIN locals[g].group : locals[g].group[k] = candles[i]
           /\ locals[g].key = UTCDateOf(candles[i].time)
                               \o <<IF LocalHour(candles[i].time) < 14 THEN "AM" ELSE "PM">>
    /\ \A k \in DOMAIN result :
         Cardinality({l \in DOMAIN result :
                        UTCDateOf(result[l].time) = UTCDateOf(result[k].time)}) <= 2
    /\ (/\ SessionDay
        /\ \E i \in 1..Len(candles) : LocalHour(candles[i].time) < 14
        /\ \E i \in 1..Len(candles) : LocalHour(candles[i].time) >= 14)
       => Len(result) = 2

\* C20 witness: the seven hourly bars of a winter session, returned as two
\* bars.
C20_Witness ==
  /\ pc = "aggregate1hTo4h"
  /\ SessionDay
  /\ Len(candles) = 7
  /\ getUTCMonth(candles[1].time) = 0
  /\ Len(result) = 2

\* The three candle invariants of the data model.
ValidCandle(c) ==
  /\ Ge(c.high, Max2(c.open, c.close))
  /\ Le(c.low, Min2(c.open, c.close))
  /\ Ge(c.volume, 0)

\* C21: when every input candle has high >= max(open, close),
\* low <= min(open, close) and volume >= 0, every bar an aggregator returns
\* has them too, and the returned bars are strictly increasing in time.
C21_InvariantsPreserved ==
  (AggregatorRan /\ \A i \in 1..Len(candles) : ValidCandle(candles[i])) =>
    /\ \A k \in DOMAIN result : ValidCandle(result[k])
    /\ \A k \in 1..(Len(result) - 1) : result[k].time < result[k + 1].time

\* C21 witness: valid rising bars given out of order and aggregated into at
\* least two bars, one of them from a bucket whose last candle trades wholly
\* above the open of its first.
C21_Witness ==
  /\ AggregatorRan
  /\ \A i \in 1..Len(candles) : ValidCandle(candles[i])
  /\ Len(result) >= 2
  /\ \E i \in 1..(Len(candles) - 1) : candles[i].time > candles[i + 1].time
  /\ \E g \in DOMAIN locals :
       /\ Len(locals[g].group) >= 2
       /\ locals[g].group[Len(locals[g].group)].low > locals[g].group[1].open

\* ============ Properties of the interval functions ============
Intraday == {"1m", "3m", "5m", "15m", "30m", "1h", "2h", "3h", "4h"}

\* The length of an intraday interval in minutes.
Minutes(iv) ==
  CASE iv = "1m" -> 1 [] iv = "3m" -> 3 [] iv = "5m" -> 5 [] iv = "15m" -> 15
    [] iv = "30m" -> 30 [] iv = "1h" -> 60 [] iv = "2h" -> 120 [] iv = "3h" -> 180
    [] iv = "4h" -> 240

\* The timestamp the claim gives bar i: shifted by the interval's duration in
\* milliseconds for an intraday interval, unchanged otherwise.
FutuTime(i) ==
  IF interval \in Intraday THEN candles[i].time + Minutes(interval) * 60 * 1000
  ELSE candles[i].time

\* The returned timestamps are the numbers FutuTime gives and keep the
\* strict order of the bars' own timestamps.
ShiftsAndKeepsOrder ==
  /\ \A i \in 1..Len(candles) :
       result[i].type = "number" /\ result[i].value = FutuTime(i)
  /\ \A i, j \in 1..Len(candles) :
       candles[i].time < candles[j].time => result[i].value < result[j].value

C23_TableOrDefault ==
  pc = "getYahooParams" =>
    result = CASE interval = "1m"  -> [yahooInterval |-> "1m", range |-> "7d"]
               [] interval \in {"5m", "15m", "30m"}
                    -> [yahooInterval |-> interval, range |-> "60d"]
               [] interval \in {"1h", "4h"} -> [yahooInterval |-> "60m", range |-> "730d"]
               [] interval = "1d"  -> [yahooInterval |-> "1d", range |-> "5y"]
               [] interval = "1mo" -> [yahooInterval |-> "1mo", range |-> "max"]
               [] OTHER -> [yahooInterval |-> "1d", range |-> "max"]

\* ============ Properties of the phases of the CD detector ============
\* The histogram flips from >= 0 to < 0, or from <= 0 to > 0, at bar i.
DeathFlip(i) == i > 1 /\ locals.macd[i - 1] >= 0 /\ locals.macd[i] < 0

GoldenFlip(i) == i > 1 /\ locals.macd[i - 1] <= 0 /\ locals.macd[i] > 0

\* The most recent death (golden) flip at or before bar i, 0 if there is none.
LastDeath(i) ==
  IF \E d \in 1..i : DeathFlip(d)
  THEN CHOOSE d \in 1..i : DeathFlip(d) /\ \A e \in (d + 1)..i : ~DeathFlip(e)
  ELSE 0

LastGolden(i) ==
  IF \E g \in 1..i : GoldenFlip(g)
  THEN CHOOSE g \in 1..i : GoldenFlip(g) /\ \A e \in (g + 1)..i : ~GoldenFlip(e)
  ELSE 0

Closes == [i \in 1..Len(candles) |-> candles[i].close]

\* The least (greatest) value of data over bars lo..hi.
Lowest(data, lo, hi) ==
  CHOOSE x \in {data[j] : j \in lo..hi} : \A j \in lo..hi : x <= data[j]

Highest(data, lo, hi) ==
  CHOOSE x \in {data[j] : j \in lo..hi} : \A j \in lo..hi : x >= data[j]

\* The three generations of one side as the claim describes them: g1 is the
\* extremum of data since the last flip that opens the phase (the whole
\* history if none), g2 is g1 at the bar before the last flip of the other
\* kind (0 if none), and g3 is g2 at that same bar.
Generations(data, g1, g2, g3, low) ==
  \A i \in 1..Len(candles) :
    LET open  == IF low THEN LastDeath(i) ELSE LastGolden(i)
        other == IF low THEN LastGolden(i) ELSE LastDeath(i)
    IN  /\ g1[i] = IF low THEN Lowest(data, Max2(open, 1), i)
                   ELSE Highest(data, Max2(open, 1), i)
        /\ g2[i] = IF other = 0 THEN 0 ELSE g1[other - 1]
        /\ g3[i] = IF other = 0 THEN 0 ELSE g2[other - 1]

\* One step of the forward pass: the three generations at bar i from those
\* at bar i - 1, the value of bar i and the flips at bar i.
ForwardPass(data, g1, g2, g3, low) ==
  \A i \in 1..Len(candles) :
    LET opens  == IF low THEN DeathFlip(i) ELSE GoldenFlip(i)
        shifts == IF low THEN GoldenFlip(i) ELSE DeathFlip(i)
    IN  /\ g1[i] = IF i = 1 \/ opens THEN data[i]
                   ELSE IF low THEN Min2(g1[i - 1], data[i])
                   ELSE Max2(g1[i - 1], data[i])
        /\ g2[i] = IF i = 1 THEN 0 ELSE IF shifts THEN g1[i - 1] ELSE g2[i - 1]
        /\ g3[i] = IF i = 1 THEN 0 ELSE IF shifts THEN g2[i - 1] ELSE g3[i - 1]

\* C24: the arrays of back references are what a single forward pass over
\* three generations per side computes: CC1 is the lowest close since the
\* last death flip, CC2 is CC1 at the bar before the last golden flip (0 if
\* none) and CC3 is CC2 at that bar; likewise DIFL1..3 on diff and, mirrored,
\* CH1..3 and DIFH1..3; each follows from its value one bar earlier.
C24_ForwardPass ==
  DetectorRan =>
    /\ Generations(Closes, locals.CC1, locals.CC2, locals.CC3, TRUE)
    /\ Generations(locals.diff, locals.DIFL1, locals.DIFL2, locals.DIFL3, TRUE)
    /\ Generations(Closes, locals.CH1, locals.CH2, locals.CH3, FALSE)
    /\ Generations(locals.diff, locals.DIFH1, locals.DIFH2, locals.DIFH3, FALSE)
    /\ ForwardPass(Closes, locals.CC1, locals.CC2, locals.CC3, TRUE)
    /\ ForwardPass(locals.diff, locals.DIFL1, locals.DIFL2, locals.DIFL3, TRUE)
    /\ ForwardPass(Closes, locals.CH1, locals.CH2, locals.CH3, FALSE)
    /\ ForwardPass(locals.diff, locals.DIFH1, locals.DIFH2, locals.DIFH3, FALSE)

\* C24 witness: a run with at least two golden and two death flips, whose
\* three generations of lows differ at the last bar.
C24_Witness ==
  /\ DetectorRan
  /\ Cardinality({i \in 1..Len(candles) : GoldenFlip(i)}) >= 2
  /\ Cardinality({i \in 1..Len(candles) : DeathFlip(i)}) >= 2
  /\ locals.CC3[Len(candles)] # 0
  /\ locals.CC3[Len(candles)] # locals.CC2[Len(candles)]
  /\ locals.CC2[Len(candles)] # locals.CC1[Len(candles)]

\* The confirmation flag of a direction at bar k: JJJ for buy, DBJG for sell.
Flag(type, k) == IF type = "buy" THEN locals.JJJ[k] ELSE locals.DBJG[k]

\* C25: no two buys and no two sells are emitted on consecutive bars, and
\* between two emitted signals of one direction there is a bar at which
\* that direction's confirmation flag is false.
C25_NoConsecutiveSignals ==
  DetectorRan =>
    \A type \in {"buy", "sell"} :
      \A i, j \in 1..Len(candles) :
        (i < j /\ SignalAt(type, i) /\ SignalAt(type, j)) =>
          /\ j > i + 1
          /\ \E k \in (i + 1)..(j - 1) : ~Flag(type, k)

\* C25 witness: two sells in one run, and a bar where the sell
\* confirmation holds for a second bar in a row without a sell.
C25_Witness ==
  /\ DetectorRan
  /\ \E i, j \in 1..Len(candles) : i < j /\ SignalAt("sell", i) /\ SignalAt("sell", j)
  /\ \E k \in 2..Len(candles) : Flag("sell", k - 1) /\ Flag("sell", k) /\ ~SignalAt("sell", k)

\* C26: a buy at bar i has a golden flip at some earlier bar, a sell a death
\* flip at some earlier bar; so the first two bars carry no signal and a
\* histogram without flips gives none.
C26_FlipBeforeSignal ==
  DetectorRan =>
    /\ \A i \in 1..Len(candles) :
         /\ SignalAt("buy", i) => \E g \in 2..(i - 1) : GoldenFlip(g)
         /\ SignalAt("sell", i) => \E d \in 2..(i - 1) : DeathFlip(d)
    /\ \A k \in DOMAIN result : result[k].time \notin {candles[1].time, candles[2].time}
    /\ (\A i \in 1..Len(candles) : ~GoldenFlip(i) /\ ~DeathFlip(i)) => result = <<>>

\* C26 witness: a buy with a single golden flip before it, or a sell with a
\* single death flip before it.
C26_Witness ==
  /\ DetectorRan
  /\ \E i \in 1..Len(candles) :
       \/ SignalAt("buy", i) /\ Cardinality({g \in 2..(i - 1) : GoldenFlip(g)}) = 1
       \/ SignalAt("sell", i) /\ Cardinality({d \in 2..(i - 1) : DeathFlip(d)}) = 1

\* ---------------------------------------------------------------------
\* Properties of the flip flags
\* ---------------------------------------------------------------------

\* The flags the detector computes at bar i (macdDeathCross, macdGoldenCross).
DeathFlag(i) == locals.macdDeathCross[i]

GoldenFlag(i) == locals.macdGoldenCross[i]

\* No bar carries a death flip and a golden flip together.
NeverBothFlips == \A i \in 1..Len(candles) : ~(DeathFlag(i) /\ GoldenFlag(i))

\* The histogram is exactly 0 at some bar strictly between bars i and j.
TouchesZero(i, j) == \E k \in (i + 1)..(j - 1) : locals.macd[k] = 0

\* C27 as stated: a bar never carries both flips, and between two golden
\* flips there is a death flip and between two death flips a golden flip,
\* also when the histogram is exactly 0 at some bar.
C27_FlipsAlternate ==
  DetectorRan =>
    /\ NeverBothFlips
    /\ \A i, j \in 1..Len(candles) :
         /\ (i < j /\ GoldenFlag(i) /\ GoldenFlag(j)) => \E k \in (i + 1)..(j - 1) : DeathFlag(k)
         /\ (i < j /\ DeathFlag(i) /\ DeathFlag(j)) => \E k \in (i + 1)..(j - 1) : GoldenFlag(k)

\* C27 amended: a bar never carries both flips, and between two flips of one
\* kind there is a flip of the other kind or a bar at which the histogram is
\* exactly 0.
C27_FlipsAlternateOrTouchZero ==
  DetectorRan =>
    /\ NeverBothFlips
    /\ \A i, j \in 1..Len(candles) :
         /\ (i < j /\ GoldenFlag(i) /\ GoldenFlag(j)) =>
              (TouchesZero(i, j) \/ \E k \in (i + 1)..(j - 1) : DeathFlag(k))
         /\ (i < j /\ DeathFlag(i) /\ DeathFlag(j)) =>
              (TouchesZero(i, j) \/ \E k \in (i + 1)..(j - 1) : GoldenFlag(k))

\* A run with two death flips that have a golden flip between them, and a run
\* whose histogram touches 0 between two flips of one kind with no flip of
\* the other kind between them.
C27_Witness ==
  /\ DetectorRan
  /\ \E i, j \in 1..Len(candles) :
       /\ i < j
       /\ \/ DeathFlag(i) /\ DeathFlag(j) /\ \A k \in (i + 1)..(j - 1) : ~GoldenFlag(k)
          \/ GoldenFlag(i) /\ GoldenFlag(j) /\ \A k \in (i + 1)..(j - 1) : ~DeathFlag(k)
       /\ TouchesZero(i, j)

\* ---------------------------------------------------------------------
\* Properties of the detector on a growing chart
\* ---------------------------------------------------------------------

\* The signals of a result that lie on the bars of cs.
SignalsWithin(signals, cs) ==
  LET OnBar(sig) == \E i \in 1..Len(cs) : cs[i].time = sig.time
  IN  SelectSeq(signals, OnBar)

\* C28: when the chart receives a later bar and the detector runs again, the
\* signals on the earlier bars are the signals it gave before, with the same
\* type and the same snapshot values; none is added, removed or changed.
C28_NoRepaint ==
  [][(/\ pc = "calculateCDSignals"
      /\ pc' = "calculateCDSignals"
      /\ Len(candles) >= CDMinBars
      /\ Len(candles') > Len(candles)
      /\ SubSeq(candles', 1, Len(candles)) = candles)
     => SignalsWithin(result', candles) = result]_vars

\* A chart that has grown past the minimum, with a signal on an earlier bar and
\* a signal on the bar received last.
C28_Witness ==
  /\ pc = "calculateCDSignals"
  /\ Len(candles) > CDMinBars
  /\ \E k \in DOMAIN result : result[k].time < candles[Len(candles)].time
  /\ \E k \in DOMAIN result : result[k].time = candles[Len(candles)].time

\* ---------------------------------------------------------------------
\* Properties of the session blocks of an ascending input
\* ---------------------------------------------------------------------

TimeAscending == \A i \in 1..(Len(candles) - 1) : candles[i].time < candles[i + 1].time

\* The positions in the input of the candles of group g.
Members(g) == {i \in 1..Len(candles) : block(candles[i].time) = locals[g].key}

\* C29: for an input ascending in time, every group of aggregate1hTo4h is a
\* contiguous run of the input, the time spans of two different groups do not
\* overlap, and the bar returned for a group closes at the close of the latest
\* candle of its span.
C29_ContiguousRuns ==
  (pc = "aggregate1hTo4h" /\ TimeAscending) =>
    /\ \A g \in DOMAIN locals :
         \A i, j \in Members(g) : \A m \in i..j : m \in Members(g)
    /\ \A g, h \in DOMAIN locals :
         g # h =>
           LET gl == locals[g].group
               hl == locals[h].group
           IN  gl[Len(gl)].time < hl[1].time \/ hl[Len(hl)].time < gl[1].time
    /\ \A g \in DOMAIN locals :
         \E k \in DOMAIN result :
           /\ result[k].time = locals[g].group[1].time
           /\ \E i \in Members(g) :
                /\ \A j \in Members(g) : candles[j].time <= candles[i].time
                /\ result[k].close = candles[i].close

\* ---------------------------------------------------------------------
\* Properties of the in-memory cache
\* ---------------------------------------------------------------------

\* The last setCache of key k: written[k] holds its data, the clock reading
\* at the call and the lifetime given.
Fresh(k) == k \in DOMAIN written /\ now < written[k].at + written[k].ttlMs

\* C30: getCached(k) returns the data of the last setCache(k, d, ttl) made at
\* time t while the clock reads less than t + ttl, and returns null from
\* t + ttl on (and for a key never set), leaving no entry for k; setCache
\* leaves for its key the new data and the new expiry t + ttl.
C30_NeverStale ==
  /\ pc = "getCached" =>
       /\ result = (IF Fresh(locals) THEN written[locals].data ELSE Null)
       /\ ~Fresh(locals) => locals \notin DOMAIN cache
  /\ pc = "setCache" =>
       cache[locals] = [data    |-> written[locals].data,
                        expires |-> written[locals].at + written[locals].ttlMs]

\* C30 witness: getCached called at the very moment an entry expires, for a
\* key last set after the clock had advanced.
C30_Witness ==
  /\ pc = "getCached"
  /\ locals \in DOMAIN written
  /\ written[locals].at > 0
  /\ now = written[locals].at + written[locals].ttlMs
  /\ result = Null
====
